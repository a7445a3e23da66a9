--------------------------- MODULE PlatformProofs ---------------------------
(* Theorems about every instance of Platform. *)
EXTENDS Platform, TLAPS

(***************************************************************************)
(* Values                                                                  *)
(***************************************************************************)
LEMMA NextSlotNat ==
    ASSUME NEW cron \in Cron, NEW slot \in Nat
    PROVE  NextSlot(cron, slot) \in Nat
<1>1. cron \in Nat /\ cron > 0
  BY StoreAssumption
<1>2. slot \div cron \in Nat
  BY <1>1
<1>3. \A a, b \in Nat : (a + 1) * b \in Nat
  OBVIOUS
<1> QED
  BY <1>1, <1>2, <1>3 DEF NextSlot

LEMMA NextRunType ==
    ASSUME NEW cron \in Cron \cup {None}, now \in 0..MaxSlot
    PROVE  NextRun(cron) \in Nat \cup {None}
BY NextSlotNat, StoreAssumption DEF NextRun

LEMMA KeyTypes ==
    /\ \A slot \in Nat : ScheduleKey(slot) \in Key
    /\ \A k \in ClientKey : HeaderKey(k) \in Key
    /\ \A e \in Nat : FreshKey(e) \in Key
    /\ \A e \in ExecId, n \in Nat : RetryKey(e, n) \in Key
    /\ \A e \in ExecId, n \in Nat : ManualRetryKey(e, n) \in Key
    /\ NoKey \in Key
BY DEF ScheduleKey, HeaderKey, FreshKey, RetryKey, ManualRetryKey, NoKey,
       Key, ExecId

LEMMA PendingRowType ==
    ASSUME NEW j \in Job, NEW attempt \in Nat,
           NEW parent \in ExecId \cup {None}, NEW key \in Key,
           NEW single \in BOOLEAN, NEW wait \in Nat
    PROVE  PendingRow(j, attempt, parent, key, single, wait) \in ExecRow
BY StoreAssumption DEF PendingRow, ExecRow, ExecStatus

LEMMA RetryRowType ==
    ASSUME TypeOK, NEW e \in ExecId, Present(execs, e),
           NEW limit \in Nat, NEW concurrent \in BOOLEAN, NEW wait \in Nat
    PROVE  /\ RetryRow(e, limit, concurrent, wait) \in ExecRow
           /\ RetryRow(e, limit, concurrent, wait).status = "PENDING"
           /\ RetryRow(e, limit, concurrent, wait).job \in Job
           /\ RetryRow(e, limit, concurrent, wait).lockedBy = None
<1>1. execs[e] \in ExecRow /\ execs[e].job \in Job
  BY DEF TypeOK
<1>2. execs[e].attempt \in Nat
  BY <1>1 DEF ExecRow
<1>3. NextAttempt(execs[e].attempt, limit) \in Nat
  BY <1>2 DEF NextAttempt
<1>4. RetryKey(e, NextAttempt(execs[e].attempt, limit)) \in Key
  BY <1>3, KeyTypes
<1>5. RetryRow(e, limit, concurrent, wait) \in ExecRow
  BY <1>1, <1>3, <1>4, PendingRowType DEF RetryRow
<1> QED
  BY <1>1, <1>5 DEF RetryRow, PendingRow

(***************************************************************************)
(* The executions table                                                    *)
(***************************************************************************)
(* What TypeOK says of the executions table. *)
TableOK(t) ==
    /\ t \in [ExecId -> ExecRow]
    /\ \A e \in ExecId :
          /\ Present(t, e) => t[e].job \in Job
          /\ t[e].lockedBy = None
                <=> t[e].status \in {"ABSENT", "PENDING"}

(* A request to retry is about a row: rows are never deleted. *)
RetryKnown ==
    \A c \in Client : req[c].at = "retry" => Present(execs, req[c].exec)

(* A row as an INSERT makes it. *)
Fresh(row) ==
    /\ row \in ExecRow /\ row.job \in Job
    /\ row.status = "PENDING" /\ row.lockedBy = None

LEMMA InsertTable ==
    ASSUME TableOK(execs), NEW e \in ExecId, NEW row, Fresh(row),
           Insert(e, row)
    PROVE  TableOK(execs')
BY DEF TableOK, Fresh, Insert, Present

LEMMA ReapTable ==
    ASSUME TypeOK, NEW parent \in Parents,
           NEW wait \in [DOMAIN parent -> Delay]
    PROVE  TableOK(ReapedTable(parent, wait))
<1> DEFINE t == ReapedTable(parent, wait)
<1>1. \A f \in DOMAIN parent :
         /\ parent[f] \in ExecId /\ ReapRetries(parent[f])
         /\ f \in ExecId /\ ~Present(execs, f)
  BY DEF Parents, Bijection, Injection, NewIds
<1>2. ASSUME NEW f \in DOMAIN parent
      PROVE  Fresh(ReapRetryRow(parent[f], wait[f]))
  <2>1. Present(execs, parent[f])
    BY <1>1, <1>2 DEF ReapRetries, Stale, Present
  <2>2. execs[parent[f]].job \in Job
    BY <1>1, <1>2, <2>1 DEF TypeOK
  <2>3. /\ jobs[execs[parent[f]].job].maxRetries \in Nat
        /\ jobs[execs[parent[f]].job].allowConcurrent \in BOOLEAN
    BY <2>2, StoreAssumption DEF TypeOK, JobRow
  <2>4. wait[f] \in Nat
    BY <1>2, StoreAssumption
  <2> QED
    BY <1>1, <1>2, <2>1, <2>3, <2>4, RetryRowType
    DEF ReapRetryRow, Fresh
<1>3. ASSUME NEW f \in ExecId, Stale(f)
      PROVE  /\ FailedRow(f) \in ExecRow
             /\ FailedRow(f).status = "FAILED"
             /\ FailedRow(f).job \in Job
             /\ FailedRow(f).lockedBy # None
  <2>1. execs[f] \in ExecRow /\ execs[f].status = "RUNNING"
    BY <1>3 DEF TypeOK, Stale
  <2>2. execs[f].job \in Job /\ execs[f].lockedBy # None
    BY <2>1 DEF TypeOK, Present
  <2>3. 0 \in 0..AgeCap
    BY StoreAssumption
  <2> QED
    BY <2>1, <2>2, <2>3 DEF FailedRow, ExecRow, ExecStatus
<1>4. t \in [ExecId -> ExecRow]
  BY <1>2, <1>3 DEF ReapedTable, Fresh, TypeOK
<1>5. ASSUME NEW f \in ExecId
      PROVE  /\ Present(t, f) => t[f].job \in Job
             /\ t[f].lockedBy = None
                  <=> t[f].status \in {"ABSENT", "PENDING"}
  <2>1. CASE f \in DOMAIN parent
    BY <1>2, <2>1 DEF ReapedTable, Fresh
  <2>2. CASE f \notin DOMAIN parent /\ Stale(f)
    BY <1>3, <2>2 DEF ReapedTable
  <2>3. CASE f \notin DOMAIN parent /\ ~Stale(f)
    BY <1>5, <2>3 DEF ReapedTable, Present, TypeOK
  <2> QED
    BY <2>1, <2>2, <2>3
<1> QED
  BY <1>4, <1>5 DEF TableOK

LEMMA StampTable ==
    ASSUME TypeOK, ClaimIsExclusive, NEW w \in Worker, Stamp(w)
    PROVE  TableOK(execs')
<1>1. ASSUME NEW e \in ExecId, e \in In(w, "selected")
      PROVE  /\ Stamped(w, e) \in ExecRow
             /\ Stamped(w, e).status = "RUNNING"
             /\ Stamped(w, e).job \in Job
             /\ Stamped(w, e).lockedBy # None
  <2>1. execs[e] \in ExecRow /\ execs[e].status = "PENDING"
    BY <1>1 DEF TypeOK, ClaimIsExclusive
  <2>2. execs[e].job \in Job
    BY <2>1 DEF TypeOK, Present
  <2>3. tasks[w][e].time \in 0..AgeCap /\ w # None
    BY StoreAssumption DEF TypeOK, Task
  <2> QED
    BY <2>1, <2>2, <2>3 DEF Stamped, ExecRow, ExecStatus
<1>2. \A e \in ExecId :
         execs'[e] = IF e \in In(w, "selected") THEN Stamped(w, e)
                     ELSE execs[e]
  BY DEF Stamp
<1>3. execs' \in [ExecId -> ExecRow]
  BY <1>1 DEF Stamp, TypeOK
<1> QED
  BY <1>1, <1>2, <1>3 DEF TableOK, TypeOK, Present

LEMMA RecordTable ==
    ASSUME TypeOK, NEW w \in Worker, NEW e \in ExecId,
           NEW status \in {"SUCCEEDED", "FAILED"},
           execs' = RecordedTable(w, e, status)
    PROVE  TableOK(execs')
<1>1. CASE ~Owns(w, e)
  BY <1>1 DEF RecordedTable, TableOK, TypeOK
<1>2. CASE Owns(w, e)
  <2>1. execs[e] \in ExecRow /\ execs[e].lockedBy = w /\ w # None
    BY <1>2, StoreAssumption DEF TypeOK, Owns
  <2>2. Present(execs, e) /\ execs[e].job \in Job
    BY <2>1 DEF TypeOK, Present
  <2>3. 0 \in 0..AgeCap
    BY StoreAssumption
  <2>4. execs' = [execs EXCEPT ![e] =
                     [execs[e] EXCEPT !.status = status, !.age = 0]]
    BY <1>2 DEF RecordedTable, TypeOK
  <2>5. [execs[e] EXCEPT !.status = status, !.age = 0] \in ExecRow
    BY <2>1, <2>3 DEF ExecRow, ExecStatus
  <2> QED
    BY <2>1, <2>2, <2>4, <2>5 DEF TableOK, TypeOK, Present, ExecRow
<1> QED
  BY <1>1, <1>2

LEMMA TickTable ==
    ASSUME TypeOK, Tick
    PROVE  /\ TableOK(execs')
           /\ now' \in 0..MaxSlot
           /\ tasks' \in [Worker -> [ExecId -> Task]]
<1>1. \A n \in 0..AgeCap : Older(n) \in 0..AgeCap
  BY StoreAssumption DEF Older
<1>2. ASSUME NEW e \in ExecId
      PROVE  /\ execs'[e] \in ExecRow
             /\ execs'[e].status = execs[e].status
             /\ execs'[e].job = execs[e].job
             /\ execs'[e].lockedBy = execs[e].lockedBy
  <2> DEFINE wait == IF execs[e].status = "PENDING" /\ execs[e].wait > 0
                     THEN execs[e].wait - 1 ELSE execs[e].wait
             age == IF execs[e].status = "RUNNING" THEN Older(execs[e].age)
                    ELSE execs[e].age
  <2>1. execs[e] \in ExecRow
    BY DEF TypeOK
  <2>2. wait \in Nat /\ age \in 0..AgeCap
    <3>1. execs[e].wait \in Nat /\ execs[e].age \in 0..AgeCap
      BY <2>1 DEF ExecRow
    <3> QED
      BY <1>1, <3>1
  <2>3. execs'[e] = [execs[e] EXCEPT !.wait = wait, !.age = age]
    BY DEF Tick
  <2> HIDE DEF wait, age
  <2>4. [execs[e] EXCEPT !.wait = wait, !.age = age] \in ExecRow
    BY <2>1, <2>2 DEF ExecRow
  <2>5. /\ [execs[e] EXCEPT !.wait = wait, !.age = age].status
              = execs[e].status
        /\ [execs[e] EXCEPT !.wait = wait, !.age = age].job = execs[e].job
        /\ [execs[e] EXCEPT !.wait = wait, !.age = age].lockedBy
              = execs[e].lockedBy
    BY <2>1 DEF ExecRow
  <2> QED
    BY <2>3, <2>4, <2>5
<1>3. execs' \in [ExecId -> ExecRow]
  BY <1>2 DEF Tick
<1>4. TableOK(execs')
  BY <1>2, <1>3 DEF TableOK, TypeOK, Present
<1>5. now' \in 0..MaxSlot
  <2>1. now' = IF now < MaxSlot THEN now + 1 ELSE now
    BY DEF Tick
  <2>2. now \in 0..MaxSlot /\ MaxSlot \in Nat
    BY StoreAssumption DEF TypeOK
  <2> QED
    BY <2>1, <2>2
<1>6. ASSUME NEW w \in Worker, NEW e \in ExecId
      PROVE  [tasks[w][e] EXCEPT !.time = Older(tasks[w][e].time)] \in Task
  <2>1. tasks[w][e] \in Task
    BY DEF TypeOK
  <2>2. tasks[w][e].time \in 0..AgeCap
    BY <2>1 DEF Task
  <2>3. Older(tasks[w][e].time) \in 0..AgeCap
    BY <1>1, <2>2
  <2> HIDE DEF Task
  <2> QED
    BY <2>1, <2>3 DEF Task
<1>7. tasks' \in [Worker -> [ExecId -> Task]]
  BY <1>6 DEF Tick, TypeOK
<1> QED
  BY <1>4, <1>5, <1>7

(***************************************************************************)
(* The jobs table                                                          *)
(***************************************************************************)
LEMMA BumpType ==
    ASSUME NEW row \in JobRow, row.version < MaxVersion
    PROVE  Bump(row) \in JobRow
<1>1. row.version + 1 \in 1..MaxVersion
  BY StoreAssumption DEF JobRow
<1> QED
  BY <1>1 DEF Bump, JobRow

LEMMA MergeType ==
    ASSUME now \in 0..MaxSlot, NEW row \in JobRow, NEW patch \in Patches
    PROVE  Merge(row, patch) \in JobRow
<1> DEFINE limit == IF "maxRetries" \in DOMAIN patch
                    THEN patch.maxRetries ELSE row.maxRetries
           concurrent == IF "allowConcurrent" \in DOMAIN patch
                         THEN patch.allowConcurrent
                         ELSE row.allowConcurrent
           cron == IF "cron" \in DOMAIN patch THEN patch.cron ELSE row.cron
           next == IF "cron" \in DOMAIN patch THEN NextRun(patch.cron)
                   ELSE row.nextRun
<1>1. limit \in RetryLimits /\ concurrent \in BOOLEAN
  BY ApiAssumption DEF JobRow
<1>2. cron \in Cron \cup {None}
  BY ApiAssumption DEF JobRow
<1>3. next \in Nat \cup {None}
  BY ApiAssumption, NextRunType DEF JobRow
<1>4. Merge(row, patch) = [row EXCEPT !.maxRetries = limit,
                              !.allowConcurrent = concurrent,
                              !.cron = cron, !.nextRun = next]
  BY DEF Merge
<1> HIDE DEF limit, concurrent, cron, next
<1> QED
  BY <1>1, <1>2, <1>3, <1>4 DEF JobRow

LEMMA OverwriteType ==
    ASSUME NEW row \in JobRow, NEW merged \in JobRow
    PROVE  /\ Overwrite(row, merged) \in JobRow
           /\ Overwrite(row, merged).version = row.version
BY DEF Overwrite, JobRow

LEMMA SlotRowFresh ==
    ASSUME TypeOK, NEW j \in Job, SlotDue(j)
    PROVE  Fresh(SlotRow(j))
<1>1. jobs[j] \in JobRow /\ jobs[j].nextRun # None
  BY DEF TypeOK, SlotDue
<1>2. jobs[j].nextRun \in Nat
  BY <1>1 DEF JobRow
<1>3. SlotRow(j) \in ExecRow
  BY <1>2, KeyTypes, PendingRowType DEF SlotRow
<1> QED
  BY <1>3 DEF Fresh, SlotRow, PendingRow

LEMMA AdvanceType ==
    ASSUME TypeOK, NEW j \in Job, SlotDue(j), Advance(j)
    PROVE  jobs' \in [Job -> JobRow]
<1>1. jobs[j] \in JobRow /\ jobs[j].nextRun # None /\ jobs[j].cron # None
  BY DEF TypeOK, SlotDue
<1>2. jobs[j].nextRun \in Nat /\ jobs[j].cron \in Cron
  BY <1>1 DEF JobRow
<1>3. NextSlot(jobs[j].cron, jobs[j].nextRun) \in Nat
  BY <1>2, NextSlotNat
<1>4. [jobs[j] EXCEPT !.nextRun = NextSlot(jobs[j].cron, jobs[j].nextRun)]
         \in JobRow
  BY <1>1, <1>3 DEF JobRow
<1>5. jobs' = [jobs EXCEPT ![j] =
         [jobs[j] EXCEPT !.nextRun = NextSlot(jobs[j].cron, jobs[j].nextRun)]]
  BY DEF Advance, TypeOK
<1> QED
  BY <1>4, <1>5 DEF TypeOK

(***************************************************************************)
(* Requests                                                                *)
(***************************************************************************)
LEMMA RequestTypes ==
    /\ NoReq \in Request
    /\ \A j \in Job, n \in Nat, p \in Patches, row \in JobRow :
          [at |-> "put", job |-> j, version |-> n, patch |-> p,
           merged |-> row] \in Request
    /\ \A j \in Job, next \in Nat \cup {None} :
          [at |-> "resume", job |-> j, nextRun |-> next] \in Request
    /\ \A j \in Job, k \in RequestKey, single \in BOOLEAN,
          at \in {"run", "lookup"} :
          [at |-> at, job |-> j, key |-> k, single |-> single] \in Request
    /\ \A e \in ExecId, single \in BOOLEAN :
          [at |-> "retry", exec |-> e, single |-> single] \in Request
BY DEF Request, NoReq

LEMMA RequestFields ==
    ASSUME NEW r \in Request
    PROVE  /\ r.at = "put" => r.job \in Job /\ r.merged \in JobRow
           /\ r.at = "resume" =>
                 r.job \in Job /\ r.nextRun \in Nat \cup {None}
           /\ r.at \in {"run", "lookup"} =>
                 /\ r.job \in Job /\ r.key \in RequestKey
                 /\ r.single \in BOOLEAN
                 /\ r = [at |-> r.at, job |-> r.job, key |-> r.key,
                         single |-> r.single]
           /\ r.at = "retry" => r.exec \in ExecId /\ r.single \in BOOLEAN
BY DEF Request

(***************************************************************************)
(* Types: one lemma per actor                                              *)
(***************************************************************************)
(* The part of TypeOK about the API handlers and the other workers' state. *)
LEMMA SetTaskType ==
    ASSUME TypeOK, NEW w \in Worker, NEW e \in ExecId, NEW task \in Task,
           SetTask(w, e, task)
    PROVE  tasks' \in [Worker -> [ExecId -> Task]]
BY DEF SetTask, TypeOK

LEMMA TaskTypes ==
    /\ NoTask \in Task
    /\ \A task \in Task, phase \in Phase :
          /\ [task EXCEPT !.phase = phase] \in Task
          /\ [task EXCEPT !.phase = phase, !.time = 0] \in Task
<1>1. NoTask \in Task
  BY StoreAssumption DEF NoTask, Task, Phase
<1>2. ASSUME NEW task \in Task, NEW phase \in Phase
      PROVE  /\ [task EXCEPT !.phase = phase] \in Task
             /\ [task EXCEPT !.phase = phase, !.time = 0] \in Task
  <2>1. 0 \in 0..AgeCap
    BY StoreAssumption
  <2> QED
    BY <1>2, <2>1 DEF Task
<1> QED
  BY <1>1, <1>2

LEMMA AllTasksType ==
    ASSUME TypeOK, NEW w \in Worker, NEW f \in [ExecId -> Task],
           tasks' = [tasks EXCEPT ![w] = f]
    PROVE  tasks' \in [Worker -> [ExecId -> Task]]
BY DEF TypeOK

LEMMA GotoType ==
    ASSUME TypeOK, NEW w \in Worker,
           NEW label \in {"off", "reap", "claim", "stamp", "process", "gone"},
           Goto(w, label)
    PROVE  pc' \in [Worker ->
              {"off", "reap", "claim", "stamp", "process", "gone"}]
BY DEF Goto, TypeOK

LEMMA LoopTyped ==
    ASSUME TypeOK, ClaimIsExclusive, NEW w \in Worker, LoopStep(w),
           UNCHANGED clients
    PROVE  TypeOK'
<1> USE DEF clients, store
<1>1. CASE Start(w)
  BY <1>1, GotoType DEF Start, TypeOK, Present
<1>2. CASE Reap(w)
  <2>1. TableOK(execs')
    BY <1>2, ReapTable DEF Reap
  <2>2. Goto(w, "claim") /\ UNCHANGED <<jobs, now, tasks>>
    BY <1>2 DEF Reap
  <2> QED
    BY <2>1, <2>2, GotoType DEF TypeOK, TableOK, Present
<1>3. CASE ReapRolledBack(w)
  BY <1>3, GotoType DEF ReapRolledBack, TypeOK, Present
<1>4. CASE ClaimSelect(w)
  <2>1. PICK batch \in Batches :
           /\ tasks' = [tasks EXCEPT ![w] =
                 [e \in ExecId |-> IF e \in batch THEN Selected(e)
                                   ELSE tasks[w][e]]]
           /\ Goto(w, IF batch = {} THEN "reap" ELSE "stamp")
    BY <1>4 DEF ClaimSelect
  <2>2. ASSUME NEW e \in batch
        PROVE  Selected(e) \in Task
    <3>1. e \in ExecId /\ Due(e)
      BY <2>1 DEF Batches, Claimable
    <3>2. execs[e].job \in Job
      BY <3>1 DEF TypeOK, Due, Present
    <3>3. jobs[execs[e].job] \in JobRow
      BY <3>2 DEF TypeOK
    <3> QED
      BY <3>3, StoreAssumption DEF Selected, Task, Phase, JobRow
  <2>3. [e \in ExecId |-> IF e \in batch THEN Selected(e) ELSE tasks[w][e]]
           \in [ExecId -> Task]
    BY <2>2 DEF TypeOK
  <2>4. tasks' \in [Worker -> [ExecId -> Task]]
    BY <2>1, <2>3, AllTasksType
  <2>5. pc' \in [Worker ->
                   {"off", "reap", "claim", "stamp", "process", "gone"}]
    BY <2>1, GotoType
  <2> QED
    BY <1>4, <2>4, <2>5 DEF ClaimSelect, TypeOK, Present
<1>5. CASE ClaimCommit(w)
  <2>1. TableOK(execs')
    BY <1>5, StampTable DEF ClaimCommit
  <2>2. tasks' \in [Worker -> [ExecId -> Task]]
    <3> DEFINE f == [e \in ExecId |->
                       IF e \in In(w, "selected")
                       THEN [tasks[w][e] EXCEPT !.phase = "calling"]
                       ELSE tasks[w][e]]
    <3>1. f \in [ExecId -> Task]
      BY TaskTypes DEF TypeOK, Phase
    <3>2. tasks' = [tasks EXCEPT ![w] = f]
      BY <1>5 DEF ClaimCommit
    <3> HIDE DEF f
    <3> QED
      BY <3>1, <3>2, AllTasksType
  <2>3. Goto(w, "process") /\ UNCHANGED <<jobs, now>>
    BY <1>5 DEF ClaimCommit
  <2> QED
    BY <2>1, <2>2, <2>3, GotoType DEF TypeOK, TableOK, Present
<1>6. CASE TickEnds(w)
  BY <1>6, GotoType DEF TickEnds, TypeOK, Present
<1> QED
  BY <1>1, <1>2, <1>3, <1>4, <1>5, <1>6 DEF LoopStep

LEMMA RetryInserted ==
    ASSUME TypeOK, NEW w \in Worker, NEW e \in ExecId, ScheduleRetry(w, e),
           ClaimIsExclusive
    PROVE  TableOK(execs')
<1>1. PICK wait \in Delay :
         LET row == WorkerRetryRow(w, e, wait)
         IN  IF Accepts(row) THEN \E f \in ExecId : IsNext(f) /\ Insert(f, row)
             ELSE UNCHANGED execs
  BY DEF ScheduleRetry
<1>2. Owns(w, e) /\ execs[e].status \in {"RUNNING", "FAILED"}
  BY DEF ScheduleRetry, In, ClaimIsExclusive
<1>3. Fresh(WorkerRetryRow(w, e, wait))
  <2>1. tasks[w][e] \in Task /\ wait \in Nat /\ Present(execs, e)
    BY <1>2, StoreAssumption DEF TypeOK, Present
  <2>2. tasks[w][e].maxRetries \in RetryLimits \cup {0}
    BY <2>1 DEF Task
  <2>3. tasks[w][e].maxRetries \in Nat
    <3>1. RetryLimits \cup {0} \subseteq Nat
      BY StoreAssumption
    <3> QED
      BY <2>2, <3>1
  <2>4. tasks[w][e].allowConcurrent \in BOOLEAN
    BY <2>1 DEF Task
  <2>5. LET row == RetryRow(e, tasks[w][e].maxRetries,
                            tasks[w][e].allowConcurrent, wait)
        IN  /\ row \in ExecRow /\ row.status = "PENDING"
            /\ row.job \in Job /\ row.lockedBy = None
    BY <2>1, <2>3, <2>4, RetryRowType
  <2> QED
    BY <2>5 DEF WorkerRetryRow, Fresh
<1>4. TableOK(execs)
  BY DEF TypeOK, TableOK
<1>5. CASE UNCHANGED execs
  BY <1>4, <1>5 DEF TableOK, Present
<1>6. CASE \E f \in ExecId : Insert(f, WorkerRetryRow(w, e, wait))
  BY <1>3, <1>4, <1>6, InsertTable
<1> QED
  BY <1>1, <1>5, <1>6

LEMMA TaskTyped ==
    ASSUME TypeOK, ClaimIsExclusive, NEW w \in Worker, NEW e \in ExecId,
           TaskStep(w, e), UNCHANGED clients
    PROVE  TypeOK'
<1> USE DEF clients, store
<1>1. tasks[w][e] \in Task
  BY DEF TypeOK
<1>2. ASSUME NEW result \in {"ok", "ko"}, CallEnds(w, e, result)
      PROVE  TypeOK'
  <2>1. [tasks[w][e] EXCEPT !.phase = result, !.time = 0] \in Task
    BY <1>1, <1>2, TaskTypes DEF Phase
  <2>2. tasks' \in [Worker -> [ExecId -> Task]]
    BY <1>2, <2>1, SetTaskType DEF CallEnds
  <2> QED
    BY <1>2, <2>2 DEF CallEnds, TypeOK, Present
<1>3. CASE RecordSuccess(w, e)
  <2>1. tasks' \in [Worker -> [ExecId -> Task]]
    BY <1>3, TaskTypes, SetTaskType DEF RecordSuccess
  <2>2. TableOK(execs')
    BY <1>3, RecordTable DEF RecordSuccess
  <2> QED
    BY <1>3, <2>1, <2>2 DEF RecordSuccess, TypeOK, TableOK, Present
<1>4. CASE RecordFailure(w, e)
  <2>1. AfterFailure(w, e) \in Task
    BY <1>1, TaskTypes DEF AfterFailure, Phase
  <2>2. tasks' \in [Worker -> [ExecId -> Task]]
    BY <1>4, <2>1, SetTaskType DEF RecordFailure
  <2>3. TableOK(execs')
    BY <1>4, RecordTable DEF RecordFailure
  <2> QED
    BY <1>4, <2>2, <2>3 DEF RecordFailure, TypeOK, TableOK, Present
<1>5. CASE ScheduleRetry(w, e)
  <2>1. tasks' \in [Worker -> [ExecId -> Task]]
    BY <1>5, TaskTypes, SetTaskType DEF ScheduleRetry
  <2>2. TableOK(execs')
    BY <1>5, RetryInserted
  <2> QED
    BY <1>5, <2>1, <2>2 DEF ScheduleRetry, TypeOK, TableOK, Present
<1> QED
  BY <1>2, <1>3, <1>4, <1>5 DEF TaskStep

LEMMA FaultTyped ==
    ASSUME TypeOK, ClaimIsExclusive, NEW w \in Worker, FaultStep(w),
           UNCHANGED clients
    PROVE  TypeOK'
<1> USE DEF clients, store
<1> DEFINE idle == [e \in ExecId |-> NoTask]
<1>1. idle \in [ExecId -> Task]
  BY TaskTypes
<1> HIDE DEF idle
<1>2. CASE Crash(w)
  <2>1. tasks' = [tasks EXCEPT ![w] = idle]
    BY <1>2 DEF Crash, idle
  <2> QED
    BY <1>1, <1>2, <2>1, GotoType, AllTasksType DEF Crash, TypeOK, Present
<1>3. CASE ClaimFails(w)
  <2>1. tasks' = [tasks EXCEPT ![w] = idle]
    BY <1>3 DEF ClaimFails, idle
  <2> QED
    BY <1>1, <1>3, <2>1, GotoType, AllTasksType DEF ClaimFails, TypeOK, Present
<1>4. CASE ClaimAckLost(w)
  <2>1. tasks' = [tasks EXCEPT ![w] = idle]
    BY <1>4 DEF ClaimAckLost, idle
  <2>2. TableOK(execs')
    BY <1>4, StampTable DEF ClaimAckLost
  <2>3. Goto(w, "reap") /\ UNCHANGED <<jobs, now>>
    BY <1>4 DEF ClaimAckLost
  <2> QED
    BY <1>1, <2>1, <2>2, <2>3, GotoType, AllTasksType
    DEF TypeOK, TableOK, Present
<1>5. ASSUME NEW e \in ExecId, QueryFails(w, e)
      PROVE  TypeOK'
  BY <1>5, TaskTypes, SetTaskType DEF QueryFails, TypeOK, Present
<1> QED
  BY <1>2, <1>3, <1>4, <1>5 DEF FaultStep

LEMMA WorkerTyped ==
    ASSUME TypeOK, ClaimIsExclusive, NEW w \in Worker, WorkerStep(w),
           UNCHANGED clients
    PROVE  TypeOK'
BY LoopTyped, FaultTyped, TaskTyped DEF WorkerStep

LEMMA SchedulerTyped ==
    ASSUME TypeOK, NEW j \in Job, SchedulerStep(j),
           UNCHANGED <<workers, clients>>
    PROVE  TypeOK'
<1> USE DEF workers, clients
<1>1. SlotDue(j)
  BY DEF SchedulerStep, ScheduleSlot, ScheduleBrokenCron, SkipSlot
<1>2. TableOK(execs)
  BY DEF TypeOK, TableOK
<1>3. TableOK(execs')
  <2>1. CASE UNCHANGED execs
    BY <1>2, <2>1 DEF TableOK, Present
  <2>2. CASE \E e \in ExecId : Insert(e, SlotRow(j))
    BY <1>1, <1>2, <2>2, SlotRowFresh, InsertTable
  <2> QED
    BY <2>1, <2>2
    DEF SchedulerStep, ScheduleSlot, ScheduleBrokenCron, SkipSlot, Enqueue
<1>4. jobs' \in [Job -> JobRow]
  <2>1. CASE Advance(j)
    BY <1>1, <2>1, AdvanceType
  <2>2. CASE jobs' = [jobs EXCEPT ![j].status = "PAUSED"]
    <3>1. [jobs[j] EXCEPT !.status = "PAUSED"] \in JobRow
      BY DEF TypeOK, JobRow, JobStatus
    <3>2. jobs' = [jobs EXCEPT ![j] = [jobs[j] EXCEPT !.status = "PAUSED"]]
      BY <2>2 DEF TypeOK
    <3> QED
      BY <3>1, <3>2 DEF TypeOK
  <2>3. CASE UNCHANGED jobs
    BY <2>3 DEF TypeOK
  <2> QED
    BY <2>1, <2>2, <2>3
    DEF SchedulerStep, ScheduleSlot, ScheduleBrokenCron, PauseBroken, SkipSlot
<1>5. UNCHANGED now
  BY DEF SchedulerStep, ScheduleSlot, ScheduleBrokenCron, SkipSlot
<1> QED
  BY <1>3, <1>4, <1>5 DEF TypeOK, TableOK, Present

LEMMA SetJobType ==
    ASSUME TypeOK, NEW j \in Job, NEW row \in JobRow, SetJob(j, row)
    PROVE  jobs' \in [Job -> JobRow]
BY DEF SetJob, TypeOK

LEMMA BeginType ==
    ASSUME TypeOK, NEW c \in Client, NEW r \in Request, Begin(c, r)
    PROVE  req' \in [Client -> Request]
BY DEF Begin, TypeOK

LEMMA EndType ==
    ASSUME TypeOK, NEW c \in Client, End(c)
    PROVE  req' \in [Client -> Request]
BY RequestTypes DEF End, TypeOK

(* A step of a handler that leaves the executions alone. *)
LEMMA JobsStepTyped ==
    ASSUME TypeOK, jobs' \in [Job -> JobRow], req' \in [Client -> Request],
           UNCHANGED <<execs, now, workers>>
    PROVE  TypeOK'
BY DEF TypeOK, Present, workers

(* A step of a handler that writes the executions only. *)
LEMMA ExecsStepTyped ==
    ASSUME TypeOK, TableOK(execs'), req' \in [Client -> Request],
           UNCHANGED <<jobs, now, workers>>
    PROVE  TypeOK'
BY DEF TypeOK, TableOK, Present, workers

LEMMA JobOpsTyped ==
    ASSUME TypeOK, NEW j \in Job, JobOps(j), UNCHANGED workers
    PROVE  TypeOK'
<1> USE DEF clients, store
<1>1. jobs[j] \in JobRow /\ now \in 0..MaxSlot
  BY DEF TypeOK
<1>2. CASE CreateJob(j)
  <2>1. PICK cron \in Cron \cup {None}, limit \in RetryLimits,
             concurrent \in BOOLEAN :
           SetJob(j, [status |-> "ACTIVE", maxRetries |-> limit,
                      allowConcurrent |-> concurrent, cron |-> cron,
                      nextRun |-> NextRun(cron), version |-> 1])
    BY <1>2 DEF CreateJob
  <2>2. NextRun(cron) \in Nat \cup {None}
    BY <1>1, NextRunType
  <2>3. 1 \in 1..MaxVersion
    BY StoreAssumption
  <2>4. [status |-> "ACTIVE", maxRetries |-> limit,
         allowConcurrent |-> concurrent, cron |-> cron,
         nextRun |-> NextRun(cron), version |-> 1] \in JobRow
    BY <2>2, <2>3 DEF JobRow, JobStatus
  <2>5. jobs' \in [Job -> JobRow]
    BY <2>1, <2>4, SetJobType
  <2> QED
    BY <1>2, <2>5, JobsStepTyped DEF CreateJob, TypeOK
<1>3. ASSUME NEW status \in JobStatus, SetStatus(j, status)
      PROVE  TypeOK'
  <2>1. [jobs[j] EXCEPT !.status = status] \in JobRow
    BY <1>1 DEF JobRow
  <2>2. [jobs[j] EXCEPT !.status = status].version < MaxVersion
    BY <1>1, <1>3 DEF SetStatus, Writable, JobRow
  <2>3. Bump([jobs[j] EXCEPT !.status = status]) \in JobRow
    BY <2>1, <2>2, BumpType
  <2>4. jobs' \in [Job -> JobRow]
    BY <1>3, <2>3, SetJobType DEF SetStatus
  <2> QED
    BY <1>3, <2>4, JobsStepTyped DEF SetStatus, TypeOK
<1>4. ASSUME NEW c \in Client, PutRead(c, j)
      PROVE  TypeOK'
  <2>1. PICK patch \in Patches, version \in 1..jobs[j].version :
           Begin(c, [at |-> "put", job |-> j, version |-> version,
                     patch |-> patch, merged |-> Merge(jobs[j], patch)])
    BY <1>4 DEF PutRead
  <2>2. Merge(jobs[j], patch) \in JobRow
    BY <1>1, MergeType
  <2>3. version \in Nat
    BY <1>1 DEF JobRow
  <2>4. req' \in [Client -> Request]
    BY <2>1, <2>2, <2>3, RequestTypes, BeginType
  <2> QED
    BY <1>4, <2>4, JobsStepTyped DEF PutRead, TypeOK
<1>5. ASSUME NEW c \in Client, ResumeRead(c, j)
      PROVE  TypeOK'
  <2>1. NextRun(jobs[j].cron) \in Nat \cup {None}
    BY <1>1, NextRunType DEF JobRow
  <2>2. req' \in [Client -> Request]
    BY <1>5, <2>1, RequestTypes, BeginType DEF ResumeRead
  <2> QED
    BY <1>5, <2>2, JobsStepTyped DEF ResumeRead, TypeOK
<1>6. ASSUME NEW c \in Client, RunRead(c, j)
      PROVE  TypeOK'
  <2>1. PICK k \in ClientKey \cup {None} :
           Begin(c, [at |-> "run", job |-> j,
                     key |-> IF k = None THEN NoKey ELSE HeaderKey(k),
                     single |-> ~jobs[j].allowConcurrent])
    BY <1>6 DEF RunRead
  <2>2. (IF k = None THEN NoKey ELSE HeaderKey(k)) \in RequestKey
    BY DEF RequestKey
  <2>3. (~jobs[j].allowConcurrent) \in BOOLEAN
    OBVIOUS
  <2>4. req' \in [Client -> Request]
    BY <2>1, <2>2, <2>3, RequestTypes, BeginType
  <2> QED
    BY <1>6, <2>4, JobsStepTyped DEF RunRead, TypeOK
<1> QED
  BY <1>2, <1>3, <1>4, <1>5, <1>6 DEF JobOps, Pause, Archive, JobStatus

LEMMA ExecOpsTyped ==
    ASSUME TypeOK, NEW e \in ExecId, ExecOps(e), UNCHANGED workers
    PROVE  TypeOK'
<1> USE DEF clients, store
<1>1. PICK c \in Client : RetryRead(c, e)
  BY DEF ExecOps
<1>2. (~jobs[execs[e].job].allowConcurrent) \in BOOLEAN
  OBVIOUS
<1>3. req' \in [Client -> Request]
  BY <1>1, <1>2, RequestTypes, BeginType DEF RetryRead
<1> QED
  BY <1>1, <1>3, JobsStepTyped DEF RetryRead, TypeOK

LEMMA RespondTyped ==
    ASSUME TypeOK, RetryKnown, NEW c \in Client, Respond(c), UNCHANGED workers
    PROVE  TypeOK'
<1> USE DEF clients, store
<1>1. req[c] \in Request
  BY DEF TypeOK
<1>2. TableOK(execs)
  BY DEF TypeOK, TableOK
<1>3. CASE PutWrite(c)
  <2>1. req[c].job \in Job /\ req[c].merged \in JobRow
    BY <1>1, <1>3, RequestFields DEF PutWrite
  <2>2. jobs[req[c].job] \in JobRow
    BY <2>1 DEF TypeOK
  <2>3. /\ Overwrite(jobs[req[c].job], req[c].merged) \in JobRow
        /\ Overwrite(jobs[req[c].job], req[c].merged).version < MaxVersion
    BY <1>3, <2>1, <2>2, OverwriteType DEF PutWrite, Writable
  <2>4. Bump(Overwrite(jobs[req[c].job], req[c].merged)) \in JobRow
    BY <2>3, BumpType
  <2>5. jobs' \in [Job -> JobRow]
    BY <1>3, <2>1, <2>4, SetJobType DEF PutWrite, TypeOK
  <2> QED
    BY <1>3, <2>5, EndType, JobsStepTyped DEF PutWrite
<1>4. CASE ResumeWrite(c)
  <2> DEFINE row == [jobs[req[c].job] EXCEPT !.status = "ACTIVE",
                                             !.nextRun = req[c].nextRun]
  <2>1. req[c].job \in Job /\ req[c].nextRun \in Nat \cup {None}
    BY <1>1, <1>4, RequestFields DEF ResumeWrite
  <2>2. jobs[req[c].job] \in JobRow
    BY <2>1 DEF TypeOK
  <2>3. row \in JobRow
    BY <2>1, <2>2 DEF JobRow, JobStatus
  <2>4. row.version < MaxVersion
    BY <1>4, <2>2 DEF ResumeWrite, Writable, JobRow
  <2>5. SetJob(req[c].job, Bump(row))
    BY <1>4 DEF ResumeWrite
  <2> HIDE DEF row
  <2>6. jobs' \in [Job -> JobRow]
    BY <2>1, <2>3, <2>4, <2>5, BumpType, SetJobType
  <2> QED
    BY <1>4, <2>6, EndType, JobsStepTyped DEF ResumeWrite
<1>5. CASE RunInsert(c)
  <2>1. /\ req[c].job \in Job /\ req[c].key \in RequestKey
        /\ req[c].single \in BOOLEAN
        /\ req[c] = [at |-> req[c].at, job |-> req[c].job,
                     key |-> req[c].key, single |-> req[c].single]
    BY <1>1, <1>5, RequestFields DEF RunInsert
  <2>2. ASSUME NEW e \in ExecId
        PROVE  Fresh(RunRow(req[c], e))
    <3>1. (IF req[c].key = NoKey THEN FreshKey(e) ELSE req[c].key) \in Key
      BY <2>1, KeyTypes DEF ExecId, RequestKey
    <3>2. RunRow(req[c], e) \in ExecRow
      BY <2>1, <3>1, PendingRowType DEF RunRow
    <3> QED
      BY <2>1, <3>2 DEF Fresh, RunRow, PendingRow
  <2>3. CASE RunAccepted(c, req[c])
    <3>1. TableOK(execs')
      BY <1>2, <2>2, <2>3, InsertTable DEF RunAccepted
    <3> QED
      BY <1>5, <2>3, <3>1, EndType, ExecsStepTyped DEF RunInsert, RunAccepted
  <2>4. CASE RunRejected(c, req[c])
    BY <1>5, <2>4, EndType, JobsStepTyped DEF RunInsert, RunRejected, TypeOK
  <2>5. CASE RunDeduped(c, req[c])
    <3>1. [req[c] EXCEPT !.at = "lookup"]
             = [at |-> "lookup", job |-> req[c].job, key |-> req[c].key,
                single |-> req[c].single]
      BY <2>1
    <3>2. [req[c] EXCEPT !.at = "lookup"] \in Request
      <4>1. [at |-> "lookup", job |-> req[c].job, key |-> req[c].key,
             single |-> req[c].single] \in Request
        BY <2>1, RequestTypes
      <4> QED
        BY <3>1, <4>1
    <3>3. req' = [req EXCEPT ![c] = [req[c] EXCEPT !.at = "lookup"]]
      BY <2>5 DEF RunDeduped, TypeOK
    <3>4. req' \in [Client -> Request]
      BY <3>2, <3>3 DEF TypeOK
    <3> QED
      BY <1>5, <2>5, <3>4, JobsStepTyped DEF RunInsert, RunDeduped, TypeOK
  <2> QED
    BY <1>5, <2>3, <2>4, <2>5 DEF RunInsert
<1>6. CASE RunLookup(c)
  BY <1>6, EndType, JobsStepTyped DEF RunLookup, TypeOK
<1>7. CASE RetryInsert(c)
  <2>1. PICK ms \in Millis :
           LET row == ManualRetryRow(req[c].exec, req[c].single, ms)
           IN  IF Accepts(row)
               THEN \E f \in ExecId : IsNext(f) /\ Insert(f, row)
               ELSE UNCHANGED execs
    BY <1>7 DEF RetryInsert
  <2>2. req[c].exec \in ExecId /\ req[c].single \in BOOLEAN
    BY <1>1, <1>7, RequestFields DEF RetryInsert
  <2>3. CASE UNCHANGED execs
    BY <1>7, <2>3, EndType, JobsStepTyped DEF RetryInsert, TypeOK
  <2>4. CASE \E f \in ExecId :
               Insert(f, ManualRetryRow(req[c].exec, req[c].single, ms))
    <3> DEFINE e == req[c].exec
    <3>1. execs[e] \in ExecRow /\ execs[e].job \in Job
      BY <1>7, <2>2 DEF RetryInsert, RetryKnown, TypeOK
    <3>2. execs[e].attempt + 1 \in Nat
      BY <3>1 DEF ExecRow
    <3>3. ManualRetryKey(e, ms) \in Key
      BY <2>2, KeyTypes, StoreAssumption
    <3>4. ManualRetryRow(e, req[c].single, ms) \in ExecRow
      BY <2>2, <3>1, <3>2, <3>3, PendingRowType, StoreAssumption
      DEF ManualRetryRow
    <3>5. Fresh(ManualRetryRow(e, req[c].single, ms))
      BY <3>1, <3>4 DEF Fresh, ManualRetryRow, PendingRow
    <3> QED
      BY <1>2, <1>7, <2>4, <3>5, InsertTable, EndType, ExecsStepTyped
      DEF RetryInsert
  <2> QED
    BY <2>1, <2>3, <2>4
<1> QED
  BY <1>3, <1>4, <1>5, <1>6, <1>7 DEF Respond

(***************************************************************************)
(* The life of an execution                                                *)
(***************************************************************************)
(* What one step may do to a row: nothing that TypeOK and the claims see,  *)
(* insert it, claim it, or end it, with its owner unchanged.               *)
RowStep(r, s) ==
    \/ s.status = r.status /\ s.lockedBy = r.lockedBy
    \/ r.status = "ABSENT" /\ s.status = "PENDING"
    \/ r.status = "PENDING" /\ s.status = "RUNNING"
    \/ /\ r.status \in {"RUNNING", "FAILED"}
       /\ s.status \in {"FAILED", "SUCCEEDED"} /\ s.lockedBy = r.lockedBy

RowSteps == \A e \in ExecId : RowStep(execs[e], execs'[e])

LEMMA InsertSteps ==
    ASSUME TypeOK, NEW e \in ExecId, NEW row, row.status = "PENDING",
           ~Present(execs, e), Insert(e, row)
    PROVE  RowSteps
BY DEF TypeOK, Insert, Present, RowSteps, RowStep

LEMMA SameSteps ==
    ASSUME UNCHANGED execs
    PROVE  RowSteps
BY DEF RowSteps, RowStep

LEMMA ReapSteps ==
    ASSUME TypeOK, NEW parent \in Parents,
           NEW wait \in [DOMAIN parent -> Delay],
           execs' = ReapedTable(parent, wait)
    PROVE  /\ RowSteps
           /\ \A e \in ExecId : Present(execs, e) =>
                 /\ execs'[e].lockedBy = execs[e].lockedBy
                 /\ \/ execs'[e].status = execs[e].status
                    \/ execs[e].status = "RUNNING" /\ execs'[e].status = "FAILED"
<1>1. \A f \in DOMAIN parent : f \in ExecId /\ ~Present(execs, f)
  BY DEF Parents, Bijection, Injection, NewIds
<1>2. ASSUME NEW e \in ExecId, e \in DOMAIN parent
      PROVE  ~Present(execs, e) /\ execs'[e].status = "PENDING"
  BY <1>1, <1>2 DEF ReapedTable, ReapRetryRow, RetryRow, PendingRow
<1>3. ASSUME NEW e \in ExecId, e \notin DOMAIN parent, Stale(e)
      PROVE  /\ execs[e].status = "RUNNING" /\ execs'[e].status = "FAILED"
             /\ execs'[e].lockedBy = execs[e].lockedBy
  <2>1. execs[e] \in ExecRow
    BY DEF TypeOK
  <2> QED
    BY <1>3, <2>1 DEF ReapedTable, Stale, FailedRow, ExecRow
<1>4. ASSUME NEW e \in ExecId, e \notin DOMAIN parent, ~Stale(e)
      PROVE  execs'[e] = execs[e]
  BY <1>4 DEF ReapedTable
<1> QED
  BY <1>2, <1>3, <1>4 DEF RowSteps, RowStep, Present

LEMMA StampSteps ==
    ASSUME TypeOK, ClaimIsExclusive, NEW w \in Worker, Stamp(w)
    PROVE  /\ RowSteps
           /\ \A e \in ExecId :
                 IF e \in In(w, "selected")
                 THEN execs'[e].status = "RUNNING" /\ execs'[e].lockedBy = w
                 ELSE execs'[e] = execs[e]
<1>1. ASSUME NEW e \in ExecId, e \in In(w, "selected")
      PROVE  /\ execs[e].status = "PENDING"
             /\ execs'[e].status = "RUNNING" /\ execs'[e].lockedBy = w
  <2>1. execs[e] \in ExecRow /\ execs[e].status = "PENDING"
    BY <1>1 DEF TypeOK, ClaimIsExclusive
  <2> QED
    BY <1>1, <2>1 DEF Stamp, Stamped, ExecRow
<1>2. ASSUME NEW e \in ExecId, e \notin In(w, "selected")
      PROVE  execs'[e] = execs[e]
  BY <1>2 DEF Stamp
<1> QED
  BY <1>1, <1>2 DEF RowSteps, RowStep

LEMMA RecordSteps ==
    ASSUME TypeOK, ClaimIsExclusive, NEW w \in Worker, NEW e \in ExecId,
           tasks[w][e].phase \in {"ok", "ko"},
           NEW status \in {"SUCCEEDED", "FAILED"},
           execs' = RecordedTable(w, e, status)
    PROVE  /\ RowSteps
           /\ execs[e].status \in {"RUNNING", "FAILED"}
           /\ execs[e].lockedBy = w
           /\ execs'[e].status = status /\ execs'[e].lockedBy = w
           /\ \A f \in ExecId \ {e} : execs'[f] = execs[f]
<1>1. Owns(w, e) /\ execs[e].status \in {"RUNNING", "FAILED"}
  BY DEF ClaimIsExclusive
<1>2. execs[e] \in ExecRow
  BY DEF TypeOK
<1>3. execs' = [execs EXCEPT ![e] =
                   [execs[e] EXCEPT !.status = status, !.age = 0]]
  BY <1>1 DEF RecordedTable, TypeOK
<1>4. /\ execs'[e].status = status
      /\ execs'[e].lockedBy = execs[e].lockedBy
  BY <1>2, <1>3 DEF TypeOK, ExecRow
<1>5. \A f \in ExecId \ {e} : execs'[f] = execs[f]
  BY <1>3 DEF TypeOK
<1> QED
  BY <1>1, <1>4, <1>5 DEF RowSteps, RowStep, Owns

LEMMA TickSteps ==
    ASSUME TypeOK, Tick
    PROVE  \A e \in ExecId : /\ execs'[e].status = execs[e].status
                             /\ execs'[e].lockedBy = execs[e].lockedBy
<1> SUFFICES ASSUME NEW e \in ExecId
             PROVE  /\ execs'[e].status = execs[e].status
                    /\ execs'[e].lockedBy = execs[e].lockedBy
  OBVIOUS
<1> DEFINE wait == IF execs[e].status = "PENDING" /\ execs[e].wait > 0
                   THEN execs[e].wait - 1 ELSE execs[e].wait
           age == IF execs[e].status = "RUNNING" THEN Older(execs[e].age)
                  ELSE execs[e].age
<1>1. execs'[e] = [execs[e] EXCEPT !.wait = wait, !.age = age]
  BY DEF Tick
<1>2. execs[e] \in ExecRow
  BY DEF TypeOK
<1> HIDE DEF wait, age
<1> QED
  BY <1>1, <1>2 DEF ExecRow

(***************************************************************************)
(* Claims                                                                  *)
(***************************************************************************)
Held == {"calling", "ok", "ko", "retry"}

(* What keeps a row claimed while some worker has a task for it. *)
KeepsClaim(e) ==
    /\ execs'[e].lockedBy = execs[e].lockedBy
    /\ \/ execs'[e].status = execs[e].status
       \/ execs[e].status = "RUNNING" /\ execs'[e].status = "FAILED"

LEMMA ClaimsKept ==
    ASSUME ClaimIsExclusive,
           \A v \in Worker, e \in ExecId :
              \/ tasks'[v][e].phase = tasks[v][e].phase
              \/ tasks'[v][e].phase = "none"
              \/ tasks[v][e].phase \in Held /\ tasks'[v][e].phase \in Held,
           \A v \in Worker, e \in ExecId :
              tasks[v][e].phase # "none" => KeepsClaim(e)
    PROVE  ClaimIsExclusive'
<1> SUFFICES ASSUME NEW w \in Worker, NEW e \in ExecId
             PROVE  /\ tasks'[w][e].phase \in Held =>
                          /\ execs'[e].lockedBy = w
                          /\ execs'[e].status \in {"RUNNING", "FAILED"}
                    /\ tasks'[w][e].phase = "selected" =>
                          /\ execs'[e].status = "PENDING"
                          /\ \A v \in Worker \ {w} :
                                tasks'[v][e].phase = "none"
  BY DEF ClaimIsExclusive, Owns, In, Held
<1>1. CASE tasks'[w][e].phase \in Held
  <2>1. tasks[w][e].phase \in Held
    BY <1>1 DEF Held
  <2>2. execs[e].lockedBy = w /\ execs[e].status \in {"RUNNING", "FAILED"}
    BY <2>1 DEF ClaimIsExclusive, Held, Owns
  <2> QED
    BY <1>1, <2>1, <2>2 DEF Held, KeepsClaim
<1>2. CASE tasks'[w][e].phase = "selected"
  <2>1. tasks[w][e].phase = "selected"
    BY <1>2 DEF Held
  <2>2. /\ execs[e].status = "PENDING"
        /\ \A v \in Worker \ {w} : tasks[v][e].phase = "none"
    BY <2>1 DEF ClaimIsExclusive, In
  <2> QED
    BY <1>2, <2>1, <2>2 DEF Held, KeepsClaim
<1> QED
  BY <1>1, <1>2 DEF Held

(* An execution some worker has a task for is a row of the table. *)
LEMMA TaskedIsPresent ==
    ASSUME TypeOK, ClaimIsExclusive, NEW w \in Worker, NEW e \in ExecId,
           tasks[w][e].phase # "none"
    PROVE  /\ execs[e].status \in {"PENDING", "RUNNING", "FAILED"}
           /\ execs[e].status = "PENDING" => Locked(e)
<1>1. tasks[w][e].phase \in Phase
  BY DEF TypeOK, Task
<1> QED
  BY <1>1 DEF Phase, ClaimIsExclusive, In, Locked

LEMMA InsertKeeps ==
    ASSUME TypeOK, ClaimIsExclusive, NEW e \in ExecId, NEW row,
           ~Present(execs, e), Insert(e, row)
    PROVE  \A v \in Worker, f \in ExecId :
              tasks[v][f].phase # "none" => KeepsClaim(f)
<1> SUFFICES ASSUME NEW v \in Worker, NEW f \in ExecId,
                    tasks[v][f].phase # "none"
             PROVE  KeepsClaim(f)
  OBVIOUS
<1>1. Present(execs, f)
  BY TaskedIsPresent DEF Present
<1> QED
  BY <1>1 DEF Insert, TypeOK, KeepsClaim

LEMMA SetTaskPhases ==
    ASSUME TypeOK, NEW w \in Worker, NEW e \in ExecId, NEW task,
           SetTask(w, e, task)
    PROVE  \A v \in Worker, f \in ExecId :
              tasks'[v][f] = IF v = w /\ f = e THEN task ELSE tasks[v][f]
BY DEF TypeOK, SetTask

LEMMA NoTasksPhases ==
    ASSUME TypeOK, NEW w \in Worker,
           tasks' = [tasks EXCEPT ![w] = [e \in ExecId |-> NoTask]]
    PROVE  \A v \in Worker, f \in ExecId :
              tasks'[v][f] = IF v = w THEN NoTask ELSE tasks[v][f]
BY DEF TypeOK

LEMMA LoopExclusive ==
    ASSUME TypeOK, ClaimIsExclusive, NEW w \in Worker, LoopStep(w)
    PROVE  ClaimIsExclusive' /\ RowSteps
<1>1. CASE UNCHANGED <<execs, tasks>>
  BY <1>1, SameSteps DEF ClaimIsExclusive, Owns, In
<1>2. CASE Reap(w)
  <2>1. PICK parent \in Parents : \E wait \in [DOMAIN parent -> Delay] :
           execs' = ReapedTable(parent, wait)
    BY <1>2 DEF Reap
  <2>2. /\ RowSteps
        /\ \A e \in ExecId : Present(execs, e) => KeepsClaim(e)
    BY <2>1, ReapSteps DEF KeepsClaim
  <2>3. \A v \in Worker, e \in ExecId :
           tasks[v][e].phase # "none" => KeepsClaim(e)
    BY <2>2, TaskedIsPresent DEF Present
  <2>4. UNCHANGED tasks
    BY <1>2 DEF Reap
  <2> QED
    BY <2>2, <2>3, <2>4, ClaimsKept
<1>3. CASE ClaimSelect(w)
  <2>1. PICK batch \in Batches :
           tasks' = [tasks EXCEPT ![w] =
                 [e \in ExecId |-> IF e \in batch THEN Selected(e)
                                   ELSE tasks[w][e]]]
    BY <1>3 DEF ClaimSelect
  <2>2. \A v \in Worker, e \in ExecId :
           tasks'[v][e] = IF v = w /\ e \in batch THEN Selected(e)
                          ELSE tasks[v][e]
    BY <2>1 DEF TypeOK
  <2>3. UNCHANGED execs
    BY <1>3 DEF ClaimSelect, store
  <2>4. ASSUME NEW e \in batch
        PROVE  /\ execs[e].status = "PENDING" /\ e \in ExecId
               /\ \A v \in Worker : tasks[v][e].phase = "none"
    <3>1. e \in ExecId /\ execs[e].status = "PENDING" /\ ~Locked(e)
      BY <2>1 DEF Batches, Claimable, Due
    <3> QED
      BY <3>1, TaskedIsPresent
  <2>5. \A e \in ExecId : Selected(e).phase = "selected"
    BY DEF Selected
  <2>6. ASSUME NEW v \in Worker, NEW e \in ExecId
        PROVE  /\ tasks'[v][e].phase \in Held =>
                     /\ execs[e].lockedBy = v
                     /\ execs[e].status \in {"RUNNING", "FAILED"}
               /\ tasks'[v][e].phase = "selected" =>
                     /\ execs[e].status = "PENDING"
                     /\ \A u \in Worker \ {v} : tasks'[u][e].phase = "none"
    <3>1. CASE e \in batch
      BY <2>2, <2>4, <2>5, <3>1 DEF Held
    <3>2. CASE e \notin batch
      <4>1. \A u \in Worker : tasks'[u][e] = tasks[u][e]
        BY <2>2, <3>2
      <4> QED
        BY <4>1 DEF ClaimIsExclusive, Held, In, Owns
    <3> QED
      BY <3>1, <3>2
  <2> QED
    BY <2>3, <2>6, SameSteps DEF ClaimIsExclusive, Held, Owns, In
<1>4. CASE ClaimCommit(w)
  <2>1. \A v \in Worker, e \in ExecId :
           /\ v # w => tasks'[v][e] = tasks[v][e]
           /\ e \notin In(w, "selected") => tasks'[v][e] = tasks[v][e]
    BY <1>4 DEF ClaimCommit, TypeOK
  <2>2. \A e \in In(w, "selected") : tasks'[w][e].phase = "calling"
    <3>1. \A e \in ExecId : tasks[w][e] \in Task
      BY DEF TypeOK
    <3>2. ASSUME NEW e \in In(w, "selected")
          PROVE  tasks'[w][e] = [tasks[w][e] EXCEPT !.phase = "calling"]
      BY <1>4, <3>2 DEF ClaimCommit, TypeOK, In
    <3> QED
      BY <3>1, <3>2 DEF Task, In
  <2>3. /\ RowSteps
        /\ \A e \in ExecId :
              IF e \in In(w, "selected")
              THEN execs'[e].status = "RUNNING" /\ execs'[e].lockedBy = w
              ELSE execs'[e] = execs[e]
    BY <1>4, StampSteps DEF ClaimCommit
  <2>4. ASSUME NEW v \in Worker, NEW e \in ExecId
        PROVE  /\ tasks'[v][e].phase \in Held =>
                     /\ execs'[e].lockedBy = v
                     /\ execs'[e].status \in {"RUNNING", "FAILED"}
               /\ tasks'[v][e].phase = "selected" =>
                     /\ execs'[e].status = "PENDING"
                     /\ \A u \in Worker \ {v} : tasks'[u][e].phase = "none"
    <3>1. CASE e \in In(w, "selected")
      <4>1. \A u \in Worker \ {w} : tasks[u][e].phase = "none"
        BY <3>1 DEF ClaimIsExclusive
      <4> QED
        BY <2>1, <2>2, <2>3, <3>1, <4>1 DEF Held
    <3>2. CASE e \notin In(w, "selected")
      <4>1. \A u \in Worker : tasks'[u][e] = tasks[u][e]
        BY <2>1, <3>2
      <4> QED
        BY <2>3, <3>2, <4>1 DEF ClaimIsExclusive, Held, In, Owns
    <3> QED
      BY <3>1, <3>2
  <2> QED
    BY <2>3, <2>4 DEF ClaimIsExclusive, Held, Owns, In
<1> QED
  BY <1>1, <1>2, <1>3, <1>4
  DEF LoopStep, Start, ReapRolledBack, TickEnds, store

LEMMA TaskExclusive ==
    ASSUME TypeOK, ClaimIsExclusive, NEW w \in Worker, NEW e \in ExecId,
           TaskStep(w, e)
    PROVE  ClaimIsExclusive' /\ RowSteps
<1>1. tasks[w][e] \in Task
  BY DEF TypeOK
<1>2. NoTask.phase = "none"
  BY DEF NoTask
<1>3. ASSUME NEW result \in {"ok", "ko"}, CallEnds(w, e, result)
      PROVE  ClaimIsExclusive' /\ RowSteps
  <2> DEFINE task == [tasks[w][e] EXCEPT !.phase = result, !.time = 0]
  <2>1. task.phase = result /\ tasks[w][e].phase = "calling"
    BY <1>1, <1>3 DEF Task, CallEnds, In
  <2>2. SetTask(w, e, task) /\ UNCHANGED execs
    BY <1>3 DEF CallEnds, store
  <2> HIDE DEF task
  <2>3. \A v \in Worker, f \in ExecId :
           tasks'[v][f] = IF v = w /\ f = e THEN task ELSE tasks[v][f]
    BY <2>2, SetTaskPhases
  <2> QED
    BY <2>1, <2>2, <2>3, ClaimsKept, SameSteps DEF KeepsClaim, Held
<1>4. CASE RecordSuccess(w, e)
  <2>1. tasks[w][e].phase = "ok" /\ execs' = RecordedTable(w, e, "SUCCEEDED")
    BY <1>4 DEF RecordSuccess, In
  <2>2. /\ RowSteps
        /\ execs[e].status \in {"RUNNING", "FAILED"} /\ execs[e].lockedBy = w
        /\ \A f \in ExecId \ {e} : execs'[f] = execs[f]
    BY <2>1, RecordSteps
  <2>3. \A v \in Worker, f \in ExecId :
           tasks'[v][f] = IF v = w /\ f = e THEN NoTask ELSE tasks[v][f]
    BY <1>4, SetTaskPhases DEF RecordSuccess
  <2>4. \A v \in Worker : tasks'[v][e].phase \notin Held \cup {"selected"}
    BY <1>2, <2>2, <2>3 DEF ClaimIsExclusive, Held, Owns, In
  <2>5. ASSUME NEW f \in ExecId, f # e
        PROVE  /\ execs'[f] = execs[f]
               /\ \A v \in Worker : tasks'[v][f] = tasks[v][f]
    BY <2>2, <2>3, <2>5
  <2> QED
    BY <2>2, <2>4, <2>5 DEF ClaimIsExclusive, Held, Owns, In
<1>5. CASE RecordFailure(w, e)
  <2>1. tasks[w][e].phase = "ko" /\ execs' = RecordedTable(w, e, "FAILED")
    BY <1>5 DEF RecordFailure, In
  <2>2. /\ RowSteps
        /\ \A f \in ExecId : KeepsClaim(f)
    BY <2>1, RecordSteps DEF KeepsClaim
  <2>3. AfterFailure(w, e).phase \in {"retry", "none"}
    BY <1>1, <1>2 DEF AfterFailure, Task
  <2>4. \A v \in Worker, f \in ExecId :
           tasks'[v][f] = IF v = w /\ f = e THEN AfterFailure(w, e)
                          ELSE tasks[v][f]
    BY <1>5, SetTaskPhases DEF RecordFailure
  <2> QED
    BY <2>1, <2>2, <2>3, <2>4, ClaimsKept DEF Held
<1>6. CASE ScheduleRetry(w, e)
  <2>1. \A v \in Worker, f \in ExecId :
           tasks'[v][f] = IF v = w /\ f = e THEN NoTask ELSE tasks[v][f]
    BY <1>6, SetTaskPhases DEF ScheduleRetry
  <2>2. \/ UNCHANGED execs
        \/ \E wait \in Delay, f \in ExecId :
              ~Present(execs, f) /\ Insert(f, WorkerRetryRow(w, e, wait))
    BY <1>6 DEF ScheduleRetry, IsNext
  <2>3. \A wait : WorkerRetryRow(w, e, wait).status = "PENDING"
    BY DEF WorkerRetryRow, RetryRow, PendingRow
  <2>4. /\ RowSteps
        /\ \A v \in Worker, f \in ExecId :
              tasks[v][f].phase # "none" => KeepsClaim(f)
    <3>1. CASE UNCHANGED execs
      BY <3>1, SameSteps DEF KeepsClaim
    <3>2. CASE ~UNCHANGED execs
      BY <2>2, <2>3, <3>2, InsertSteps, InsertKeeps
    <3> QED
      BY <3>1, <3>2
  <2> QED
    BY <1>2, <2>1, <2>4, ClaimsKept
<1> QED
  BY <1>3, <1>4, <1>5, <1>6 DEF TaskStep

LEMMA FaultExclusive ==
    ASSUME TypeOK, ClaimIsExclusive, NEW w \in Worker, FaultStep(w)
    PROVE  ClaimIsExclusive' /\ RowSteps
<1>1. NoTask.phase = "none"
  BY DEF NoTask
<1>2. CASE /\ UNCHANGED execs
           /\ tasks' = [tasks EXCEPT ![w] = [e \in ExecId |-> NoTask]]
  BY <1>1, <1>2, NoTasksPhases, ClaimsKept, SameSteps DEF KeepsClaim
<1>3. CASE ClaimAckLost(w)
  <2>1. \A v \in Worker, f \in ExecId :
           tasks'[v][f] = IF v = w THEN NoTask ELSE tasks[v][f]
    BY <1>3, NoTasksPhases DEF ClaimAckLost
  <2>2. /\ RowSteps
        /\ \A e \in ExecId : e \notin In(w, "selected") =>
                                execs'[e] = execs[e]
    BY <1>3, StampSteps DEF ClaimAckLost
  <2>3. \A e \in In(w, "selected"), v \in Worker : tasks'[v][e].phase = "none"
    BY <1>1, <2>1 DEF ClaimIsExclusive, In
  <2>4. ASSUME NEW v \in Worker, NEW e \in ExecId
        PROVE  /\ tasks'[v][e].phase \in Held =>
                     /\ execs'[e].lockedBy = v
                     /\ execs'[e].status \in {"RUNNING", "FAILED"}
               /\ tasks'[v][e].phase = "selected" =>
                     /\ execs'[e].status = "PENDING"
                     /\ \A u \in Worker \ {v} : tasks'[u][e].phase = "none"
    <3>1. CASE e \in In(w, "selected")
      BY <2>3, <3>1 DEF Held
    <3>2. CASE e \notin In(w, "selected")
      BY <1>1, <2>1, <2>2, <3>2 DEF ClaimIsExclusive, Held, In, Owns
    <3> QED
      BY <3>1, <3>2
  <2> QED
    BY <2>2, <2>4 DEF ClaimIsExclusive, Held, Owns, In
<1>4. ASSUME NEW e \in ExecId, QueryFails(w, e)
      PROVE  ClaimIsExclusive' /\ RowSteps
  <2>1. UNCHANGED execs
    BY <1>4 DEF QueryFails, store
  <2>2. \A v \in Worker, f \in ExecId :
           tasks'[v][f] = IF v = w /\ f = e THEN NoTask ELSE tasks[v][f]
    BY <1>4, SetTaskPhases DEF QueryFails
  <2> QED
    BY <1>1, <2>1, <2>2, ClaimsKept, SameSteps DEF KeepsClaim
<1> QED
  BY <1>2, <1>3, <1>4 DEF FaultStep, Crash, ClaimFails, store

(* The steps of the other actors leave the tasks alone. *)
LEMMA OthersExclusive ==
    ASSUME TypeOK, ClaimIsExclusive, UNCHANGED tasks,
           \/ UNCHANGED execs
           \/ \E e \in ExecId : \E row :
                 /\ row.status = "PENDING" /\ ~Present(execs, e)
                 /\ Insert(e, row)
    PROVE  ClaimIsExclusive' /\ RowSteps
<1>1. CASE UNCHANGED execs
  BY <1>1, SameSteps DEF ClaimIsExclusive, Owns, In
<1>2. ASSUME NEW e \in ExecId, NEW row, row.status = "PENDING",
             ~Present(execs, e), Insert(e, row)
      PROVE  ClaimIsExclusive' /\ RowSteps
  BY <1>2, InsertSteps, InsertKeeps, ClaimsKept
<1> QED
  BY <1>1, <1>2

LEMMA SchedulerExclusive ==
    ASSUME TypeOK, ClaimIsExclusive, NEW j \in Job, SchedulerStep(j),
           UNCHANGED workers
    PROVE  ClaimIsExclusive' /\ RowSteps
<1>1. SlotRow(j).status = "PENDING"
  BY DEF SlotRow, PendingRow
<1>2. \/ UNCHANGED execs
      \/ \E e \in ExecId : ~Present(execs, e) /\ Insert(e, SlotRow(j))
  BY DEF SchedulerStep, ScheduleSlot, ScheduleBrokenCron, SkipSlot, Enqueue,
         IsNext
<1> QED
  BY <1>1, <1>2, OthersExclusive DEF workers

LEMMA ApiExclusive ==
    ASSUME TypeOK, ClaimIsExclusive, ApiStep, UNCHANGED workers
    PROVE  ClaimIsExclusive' /\ RowSteps
<1> USE DEF store
<1>1. ASSUME NEW c \in Client, Respond(c)
      PROVE  \/ UNCHANGED execs
             \/ \E e \in ExecId : \E row :
                   /\ row.status = "PENDING" /\ ~Present(execs, e)
                   /\ Insert(e, row)
  <2>1. CASE RunInsert(c)
    <3>1. \A e : RunRow(req[c], e).status = "PENDING"
      BY DEF RunRow, PendingRow
    <3> QED
      BY <2>1, <3>1 DEF RunInsert, RunAccepted, RunRejected, RunDeduped, IsNext
  <2>2. CASE RetryInsert(c)
    <3>1. \A ms : ManualRetryRow(req[c].exec, req[c].single, ms).status
                     = "PENDING"
      BY DEF ManualRetryRow, PendingRow
    <3> QED
      BY <2>2, <3>1 DEF RetryInsert, IsNext
  <2> QED
    BY <1>1, <2>1, <2>2 DEF Respond, PutWrite, ResumeWrite, RunLookup
<1>2. ASSUME NEW j \in Job, JobOps(j)
      PROVE  UNCHANGED execs
  BY <1>2 DEF JobOps, CreateJob, Pause, Archive, SetStatus, PutRead,
              ResumeRead, RunRead
<1>3. ASSUME NEW e \in ExecId, ExecOps(e)
      PROVE  UNCHANGED execs
  BY <1>3 DEF ExecOps, RetryRead
<1> QED
  BY <1>1, <1>2, <1>3, OthersExclusive DEF ApiStep, workers

LEMMA TickExclusive ==
    ASSUME TypeOK, ClaimIsExclusive, Tick
    PROVE  ClaimIsExclusive' /\ RowSteps
<1>1. \A e \in ExecId : /\ execs'[e].status = execs[e].status
                        /\ execs'[e].lockedBy = execs[e].lockedBy
  BY TickSteps
<1>2. ASSUME NEW v \in Worker, NEW e \in ExecId
      PROVE  tasks'[v][e].phase = tasks[v][e].phase
  <2>1. \/ tasks'[v][e] = tasks[v][e]
        \/ tasks'[v][e] = [tasks[v][e] EXCEPT !.time = Older(tasks[v][e].time)]
    BY DEF Tick
  <2>2. tasks[v][e] \in Task
    BY DEF TypeOK
  <2> QED
    BY <2>1, <2>2 DEF Task
<1> QED
  BY <1>1, <1>2, ClaimsKept DEF RowSteps, RowStep, KeepsClaim

(***************************************************************************)
(* The inductive invariant                                                 *)
(***************************************************************************)
IInv == TypeOK /\ ClaimIsExclusive /\ RetryKnown

LEMMA InitIInv == Init => IInv
<1> SUFFICES ASSUME Init
             PROVE  IInv
  OBVIOUS
<1> USE DEF Init, WorkerInit
<1>1. NoRow.status = "ABSENT" /\ NoRow.lockedBy = None
  BY DEF NoRow
<1>2. ASSUME NEW e \in ExecId
      PROVE  /\ Present(execs, e) => execs[e].job \in Job
             /\ execs[e].lockedBy = None
             /\ execs[e].status \in {"ABSENT", "PENDING"}
  BY <1>1, InitAssumption DEF Present
<1>3. execs \in [ExecId -> ExecRow] /\ jobs \in [Job -> JobRow]
  BY InitAssumption
<1>4. now \in 0..MaxSlot
  BY StoreAssumption
<1>5. TypeOK
  BY <1>2, <1>3, <1>4, TaskTypes, RequestTypes DEF TypeOK
<1>6. ClaimIsExclusive
  BY DEF ClaimIsExclusive, In, NoTask
<1>7. RetryKnown
  BY DEF RetryKnown, NoReq
<1> QED
  BY <1>5, <1>6, <1>7 DEF IInv

LEMMA RowsStay ==
    ASSUME RowSteps, NEW e \in ExecId, Present(execs, e)
    PROVE  Present(execs', e)
BY DEF RowSteps, RowStep, Present

(* Only RetryRead starts a request to retry. *)
LEMMA RetryKnownStep ==
    ASSUME TypeOK, RetryKnown, RowSteps, Next
    PROVE  RetryKnown'
<1> SUFFICES ASSUME NEW c \in Client, req'[c].at = "retry"
             PROVE  Present(execs', req'[c].exec)
  BY DEF RetryKnown
<1>1. CASE req'[c] = req[c]
  <2>1. req[c].exec \in ExecId
    BY <1>1, RequestFields DEF TypeOK
  <2> QED
    BY <1>1, <2>1, RowsStay DEF RetryKnown
<1>2. CASE req'[c] # req[c]
  <2>1. ApiStep
    BY <1>2 DEF Next, clients
  <2>2. PICK e \in ExecId : RetryRead(c, e)
    <3>1. ASSUME NEW d \in Client, Respond(d)
          PROVE  req' = [req EXCEPT ![d] = NoReq] \/ RunDeduped(d, req[d])
      BY <3>1 DEF Respond, PutWrite, ResumeWrite, RunInsert, RunAccepted,
                  RunRejected, RunLookup, RetryInsert, End
    <3>2. NoReq.at # "retry"
      BY DEF NoReq
    <3>3. ASSUME NEW d \in Client, Respond(d)
          PROVE  FALSE
      <4>1. CASE req' = [req EXCEPT ![d] = NoReq]
        BY <1>2, <3>2, <4>1 DEF TypeOK
      <4>2. CASE RunDeduped(d, req[d])
        <5>1. req' = [req EXCEPT ![d] = [req[d] EXCEPT !.at = "lookup"]]
          BY <4>2 DEF RunDeduped, TypeOK
        <5>2. [req[d] EXCEPT !.at = "lookup"].at = "lookup"
          BY DEF TypeOK, Request
        <5> QED
          BY <1>2, <5>1, <5>2 DEF TypeOK
      <4> QED
        BY <3>1, <3>3, <4>1, <4>2
    <3>4. ASSUME NEW j \in Job, JobOps(j)
          PROVE  FALSE
      BY <1>2, <3>4 DEF JobOps, CreateJob, Pause, Archive, SetStatus, PutRead,
                        ResumeRead, RunRead, Begin, TypeOK, clients
    <3>5. PICK e \in ExecId : ExecOps(e)
      BY <2>1, <3>3, <3>4 DEF ApiStep
    <3>6. PICK d \in Client : RetryRead(d, e)
      BY <3>5 DEF ExecOps
    <3>7. d = c
      BY <1>2, <3>6 DEF RetryRead, Begin, TypeOK
    <3> QED
      BY <3>6, <3>7
  <2>3. req'[c].exec = e /\ Present(execs, e)
    BY <2>2 DEF RetryRead, Begin, TypeOK, Present
  <2> QED
    BY <2>3, RowsStay
<1> QED
  BY <1>1, <1>2

LEMMA NextIInv ==
    ASSUME IInv, [Next]_vars
    PROVE  IInv' /\ RowSteps
<1> USE DEF IInv
<1>1. CASE UNCHANGED vars
  <2>1. UNCHANGED <<jobs, execs, now, pc, tasks, req, reply>>
    BY <1>1 DEF vars, store, workers, clients
  <2> QED
    BY <2>1, SameSteps
    DEF TypeOK, Present, ClaimIsExclusive, Owns, In, RetryKnown
<1>2. CASE Next
  <2>1. TypeOK'
    <3>1. ASSUME NEW w \in Worker, WorkerStep(w), UNCHANGED clients
          PROVE  TypeOK'
      BY <3>1, WorkerTyped
    <3>2. ASSUME NEW j \in Job, SchedulerStep(j),
                 UNCHANGED <<workers, clients>>
          PROVE  TypeOK'
      BY <3>2, SchedulerTyped
    <3>3. ASSUME ApiStep, UNCHANGED workers
          PROVE  TypeOK'
      BY <3>3, RespondTyped, JobOpsTyped, ExecOpsTyped DEF ApiStep
    <3>4. ASSUME Tick, UNCHANGED clients
          PROVE  TypeOK'
      BY <3>4, TickTable
      DEF TypeOK, TableOK, Present, Tick, clients
    <3> QED
      BY <1>2, <3>1, <3>2, <3>3, <3>4 DEF Next
  <2>2. ClaimIsExclusive' /\ RowSteps
    <3>1. ASSUME NEW w \in Worker, WorkerStep(w)
          PROVE  ClaimIsExclusive' /\ RowSteps
      BY <3>1, LoopExclusive, FaultExclusive, TaskExclusive DEF WorkerStep
    <3> QED
      BY <1>2, <3>1, SchedulerExclusive, ApiExclusive, TickExclusive
      DEF Next, workers
  <2>3. RetryKnown'
    BY <1>2, <2>2, RetryKnownStep
  <2> QED
    BY <2>1, <2>2, <2>3
<1> QED
  BY <1>1, <1>2

LEMMA Invariance == Spec => []IInv
<1>1. IInv /\ [Next]_vars => IInv'
  BY NextIInv
<1> QED
  BY InitIInv, <1>1, PTL DEF Spec

(***************************************************************************)
(* Theorems                                                                *)
(***************************************************************************)
(* Every column and every variable keeps its type: a version never passes  *)
(* its bound, no statement leaves a claimed row without an owner or gives  *)
(* an owner to a row nobody has claimed.                                   *)
THEOREM TypeCorrect == Spec => []TypeOK
<1>1. IInv => TypeOK
  BY DEF IInv
<1> QED
  BY Invariance, <1>1, PTL

(* FOR UPDATE SKIP LOCKED and the test of locked_by (worker.ts:60-69,      *)
(* 99-100, 126-127) make a claim exclusive: from the row lock to the last  *)
(* write no second worker has a task for the execution, whatever the       *)
(* reapers, crashes, lost commits and clients in between.                  *)
THEOREM ClaimExclusive == Spec => []ClaimIsExclusive
<1>1. IInv => ClaimIsExclusive
  BY DEF IInv
<1> QED
  BY Invariance, <1>1, PTL

(* An execution that has SUCCEEDED is never written again: the claim tests *)
(* PENDING and the reaper RUNNING, and a record without a test of the      *)
(* status (worker.ts:90-136) meets no such row, because claims are         *)
(* exclusive.                                                              *)
THEOREM SettledFinal == Spec => SettledIsFinal
<1>1. IInv /\ [Next]_vars =>
         [\A e \in ExecId : execs[e].status = "SUCCEEDED" =>
                               execs'[e].status = "SUCCEEDED"]_vars
  BY NextIInv DEF RowSteps, RowStep
<1> QED
  BY Invariance, <1>1, PTL DEF Spec, SettledIsFinal
=============================================================================
