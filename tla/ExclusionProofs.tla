-------------------------- MODULE ExclusionProofs --------------------------
(* Theorems about the unique indexes, the calls and the retries. *)
EXTENDS PlatformProofs

(***************************************************************************)
(* The unique indexes                                                      *)
(***************************************************************************)
(* What no statement changes in a row once it is inserted. *)
SameOrigin(r, s) ==
    /\ s.job = r.job /\ s.attempt = r.attempt /\ s.parent = r.parent
    /\ s.key = r.key /\ s.single = r.single

(* A step that inserts nothing and puts no execution back in flight. *)
Steady ==
    \A e \in ExecId :
        /\ SameOrigin(execs[e], execs'[e])
        /\ Present(execs', e) <=> Present(execs, e)
        /\ InFlight(execs', e) => InFlight(execs, e)

(* The automatic retries: the next attempt of an execution that has ended. *)
RetryOf(t, row) ==
    /\ row.parent \in ExecId
    /\ t[row.parent].status \in {"FAILED", "SUCCEEDED"}
    /\ row.job = t[row.parent].job
    /\ row.attempt = t[row.parent].attempt + 1
    /\ row.key = RetryKey(row.parent, row.attempt)
Lineage(t) == \A f \in ExecId : t[f].key.kind = "retry" => RetryOf(t, t[f])

(* A retry that is about to be inserted is allowed and follows a failure.  *)
RetryPhase ==
    \A w \in Worker, e \in ExecId :
        e \in In(w, "retry") =>
            /\ execs[e].status = "FAILED"
            /\ ShouldRetry(execs[e].attempt, tasks[w][e].maxRetries)

Inserts ==
    \E e \in ExecId : \E row :
        /\ row.status = "PENDING" /\ Accepts(row) /\ ~Present(execs, e)
        /\ row.key.kind = "retry" => RetryOf(execs, row)
        /\ row.key.kind = "schedule" => row.key.n = 0
        /\ Insert(e, row)

Reaps ==
    \E parent \in Parents : \E wait \in [DOMAIN parent -> Delay] :
        /\ SingleIndex(ReapedTable(parent, wait))
        /\ execs' = ReapedTable(parent, wait)

LEMMA StampSteady ==
    ASSUME TypeOK, ClaimIsExclusive, NEW w \in Worker, Stamp(w)
    PROVE  Steady
<1>1. ASSUME NEW e \in ExecId, e \in In(w, "selected")
      PROVE  SameOrigin(execs[e], execs'[e])
  <2>1. execs[e] \in ExecRow /\ execs'[e] = Stamped(w, e)
    BY <1>1 DEF TypeOK, Stamp
  <2> QED
    BY <2>1 DEF Stamped, ExecRow, SameOrigin
<1>2. ASSUME NEW e \in ExecId, e \in In(w, "selected")
      PROVE  execs[e].status = "PENDING" /\ execs'[e].status = "RUNNING"
  BY <1>2, StampSteps DEF ClaimIsExclusive
<1>3. ASSUME NEW e \in ExecId, e \notin In(w, "selected")
      PROVE  execs'[e] = execs[e]
  BY <1>3 DEF Stamp
<1> QED
  BY <1>1, <1>2, <1>3 DEF Steady, SameOrigin, Present, InFlight

LEMMA RecordSteady ==
    ASSUME TypeOK, ClaimIsExclusive, NEW w \in Worker, NEW e \in ExecId,
           tasks[w][e].phase \in {"ok", "ko"},
           NEW status \in {"SUCCEEDED", "FAILED"},
           execs' = RecordedTable(w, e, status)
    PROVE  Steady
<1>1. /\ execs[e].status \in {"RUNNING", "FAILED"}
      /\ execs'[e].status = status
      /\ \A f \in ExecId \ {e} : execs'[f] = execs[f]
  BY RecordSteps
<1>2. SameOrigin(execs[e], execs'[e])
  <2>1. execs[e] \in ExecRow
    BY DEF TypeOK
  <2>2. \/ execs'[e] = execs[e]
        \/ execs'[e] = [execs[e] EXCEPT !.status = status, !.age = 0]
    BY DEF RecordedTable, TypeOK
  <2> QED
    BY <2>1, <2>2 DEF ExecRow, SameOrigin
<1> QED
  BY <1>1, <1>2 DEF Steady, SameOrigin, Present, InFlight

LEMMA TickSteady ==
    ASSUME TypeOK, Tick
    PROVE  Steady
<1>1. ASSUME NEW e \in ExecId
      PROVE  SameOrigin(execs[e], execs'[e])
  <2> DEFINE wait == IF execs[e].status = "PENDING" /\ execs[e].wait > 0
                     THEN execs[e].wait - 1 ELSE execs[e].wait
             age == IF execs[e].status = "RUNNING" THEN Older(execs[e].age)
                    ELSE execs[e].age
  <2>1. execs'[e] = [execs[e] EXCEPT !.wait = wait, !.age = age]
    BY DEF Tick
  <2>2. execs[e] \in ExecRow
    BY DEF TypeOK
  <2> HIDE DEF wait, age
  <2> QED
    BY <2>1, <2>2 DEF ExecRow, SameOrigin
<1> QED
  BY <1>1, TickSteps DEF Steady, Present, InFlight

LEMMA RetryInserts ==
    ASSUME TypeOK, RetryPhase, NEW w \in Worker, NEW e \in ExecId,
           ScheduleRetry(w, e)
    PROVE  Inserts \/ UNCHANGED execs
<1>1. PICK wait \in Delay :
         LET row == WorkerRetryRow(w, e, wait)
         IN  IF Accepts(row) THEN \E f \in ExecId : IsNext(f) /\ Insert(f, row)
             ELSE UNCHANGED execs
  BY DEF ScheduleRetry
<1> DEFINE row == WorkerRetryRow(w, e, wait)
<1>2. execs[e].status = "FAILED"
      /\ ShouldRetry(execs[e].attempt, tasks[w][e].maxRetries)
  BY DEF ScheduleRetry, RetryPhase
<1>3. row.status = "PENDING" /\ RetryOf(execs, row) /\ row.key.kind # "schedule"
  BY <1>2 DEF WorkerRetryRow, RetryRow, PendingRow, NextAttempt, RetryOf, RetryKey
<1> HIDE DEF row
<1> QED
  BY <1>1, <1>3 DEF Inserts, IsNext, row

LEMMA SchedulerInserts ==
    ASSUME NEW j \in Job, SchedulerStep(j)
    PROVE  Inserts \/ UNCHANGED execs
<1>1. /\ SlotRow(j).status = "PENDING"
      /\ SlotRow(j).key.kind = "schedule" /\ SlotRow(j).key.n = 0
  BY DEF SlotRow, PendingRow, ScheduleKey
<1> QED
  BY <1>1 DEF SchedulerStep, ScheduleSlot, ScheduleBrokenCron, SkipSlot,
              Enqueue, Inserts, IsNext

LEMMA ApiInserts ==
    ASSUME TypeOK, ApiStep
    PROVE  Inserts \/ UNCHANGED execs
<1> USE DEF store
<1>1. ASSUME NEW c \in Client, RunInsert(c)
      PROVE  Inserts \/ UNCHANGED execs
  <2>1. req[c].key \in RequestKey
    BY <1>1, RequestFields DEF RunInsert, TypeOK
  <2>2. ASSUME NEW e
        PROVE  /\ RunRow(req[c], e).status = "PENDING"
               /\ RunRow(req[c], e).key.kind \notin {"retry", "schedule"}
    BY <2>1 DEF RunRow, PendingRow, RequestKey, NoKey, HeaderKey, FreshKey
  <2> QED
    BY <1>1, <2>2 DEF RunInsert, RunAccepted, RunRejected, RunDeduped, IsNext,
                      Inserts
<1>2. ASSUME NEW c \in Client, RetryInsert(c)
      PROVE  Inserts \/ UNCHANGED execs
  <2>1. ASSUME NEW ms
        PROVE  LET row == ManualRetryRow(req[c].exec, req[c].single, ms)
               IN  /\ row.status = "PENDING"
                   /\ row.key.kind \notin {"retry", "schedule"}
    BY DEF ManualRetryRow, PendingRow, ManualRetryKey
  <2> QED
    BY <1>2, <2>1 DEF RetryInsert, IsNext, Inserts
<1>3. ASSUME NEW c \in Client, Respond(c)
      PROVE  Inserts \/ UNCHANGED execs
  BY <1>1, <1>2, <1>3 DEF Respond, PutWrite, ResumeWrite, RunLookup
<1>4. ASSUME NEW j \in Job, JobOps(j)
      PROVE  UNCHANGED execs
  BY <1>4 DEF JobOps, CreateJob, Pause, Archive, SetStatus, PutRead,
              ResumeRead, RunRead
<1>5. ASSUME NEW e \in ExecId, ExecOps(e)
      PROVE  UNCHANGED execs
  BY <1>5 DEF ExecOps, RetryRead
<1> QED
  BY <1>3, <1>4, <1>5 DEF ApiStep

LEMMA WorkerTable ==
    ASSUME IInv, NEW w \in Worker, WorkerStep(w)
    PROVE  \/ Reaps \/ Steady \/ UNCHANGED execs
           \/ \E e \in ExecId : ScheduleRetry(w, e)
<1> USE DEF IInv, store
<1>1. ASSUME LoopStep(w)
      PROVE  Reaps \/ Steady \/ UNCHANGED execs
  BY <1>1, StampSteady DEF LoopStep, Start, Reap, ReapRolledBack,
                           ClaimSelect, ClaimCommit, TickEnds, Reaps
<1>2. ASSUME FaultStep(w)
      PROVE  Steady \/ UNCHANGED execs
  BY <1>2, StampSteady DEF FaultStep, Crash, ClaimFails, ClaimAckLost,
                           QueryFails
<1>3. ASSUME NEW e \in ExecId, TaskStep(w, e)
      PROVE  ScheduleRetry(w, e) \/ Steady \/ UNCHANGED execs
  <2>1. CASE RecordSuccess(w, e)
    BY <2>1, RecordSteady DEF RecordSuccess, In
  <2>2. CASE RecordFailure(w, e)
    BY <2>2, RecordSteady DEF RecordFailure, In
  <2> QED
    BY <1>3, <2>1, <2>2 DEF TaskStep, CallEnds
<1> QED
  BY <1>1, <1>2, <1>3 DEF WorkerStep

LEMMA WorkerTableStep ==
    ASSUME IInv, RetryPhase, NEW w \in Worker, WorkerStep(w)
    PROVE  Inserts \/ Reaps \/ Steady \/ UNCHANGED execs
BY WorkerTable, RetryInserts DEF IInv

LEMMA TableStep ==
    ASSUME IInv, RetryPhase, [Next]_vars
    PROVE  Inserts \/ Reaps \/ Steady
<1>1. UNCHANGED execs => Steady
  BY DEF Steady, SameOrigin, Present, InFlight
<1>2. CASE UNCHANGED vars
  BY <1>1, <1>2 DEF vars, store
<1>3. CASE Next
  BY <1>1, <1>3, WorkerTableStep, SchedulerInserts, ApiInserts, TickSteady
  DEF Next, IInv
<1> QED
  BY <1>2, <1>3

(* What the three kinds of steps do to the indexes and to the lineage. *)
Indexed(t) == SingleIndex(t) /\ KeyIndex(t) /\ Lineage(t)

(* A row that was never inserted has no key. *)
Blank(t) == \A e \in ExecId : ~Present(t, e) => t[e].key = NoKey

LEMMA SteadyIndexed ==
    ASSUME TypeOK, Indexed(execs), Blank(execs), Steady, RowSteps
    PROVE  Indexed(execs') /\ Blank(execs')
<1>1. SingleIndex(execs')
  BY DEF Indexed, Steady, SameOrigin, SingleIndex
<1>2. KeyIndex(execs')
  BY DEF Indexed, Steady, SameOrigin, KeyIndex
<1>3. Blank(execs')
  BY DEF Blank, Steady, SameOrigin
<1>4. ASSUME NEW f \in ExecId, execs'[f].key.kind = "retry"
      PROVE  RetryOf(execs', execs'[f])
  <2>1. SameOrigin(execs[f], execs'[f])
    BY DEF Steady
  <2>2. RetryOf(execs, execs[f])
    BY <1>4, <2>1 DEF Indexed, Lineage, SameOrigin
  <2>3. execs[f].parent \in ExecId
    BY <2>2 DEF RetryOf
  <2>4. /\ SameOrigin(execs[execs[f].parent], execs'[execs[f].parent])
        /\ RowStep(execs[execs[f].parent], execs'[execs[f].parent])
    BY <2>3 DEF Steady, RowSteps
  <2> QED
    BY <2>1, <2>2, <2>4 DEF RetryOf, SameOrigin, RowStep
<1> QED
  BY <1>1, <1>2, <1>3, <1>4 DEF Indexed, Lineage

LEMMA InsertsIndexed ==
    ASSUME TypeOK, Indexed(execs), Blank(execs), Inserts
    PROVE  Indexed(execs') /\ Blank(execs')
<1>1. PICK e, row :
         /\ e \in ExecId
         /\ row.status = "PENDING" /\ Accepts(row) /\ ~Present(execs, e)
         /\ row.key.kind = "retry" => RetryOf(execs, row)
         /\ Insert(e, row)
  BY DEF Inserts
<1>2. execs'[e] = row /\ \A f \in ExecId \ {e} : execs'[f] = execs[f]
  BY <1>1 DEF Insert, TypeOK
<1>3. SingleIndex(execs')
  BY <1>1, <1>2 DEF Indexed, SingleIndex, Accepts, SingleTaken, InFlight
<1>4. KeyIndex(execs')
  BY <1>1, <1>2 DEF Indexed, KeyIndex, Accepts, KeyTaken, Present
<1>5. Blank(execs')
  BY <1>1, <1>2 DEF Blank, Present
<1>6. ASSUME NEW f \in ExecId, execs'[f].key.kind = "retry"
      PROVE  RetryOf(execs', execs'[f])
  <2>1. RetryOf(execs, execs'[f])
    BY <1>1, <1>2, <1>6 DEF Indexed, Lineage
  <2>2. execs'[f].parent # e /\ execs'[f].parent \in ExecId
    BY <1>1, <2>1 DEF RetryOf, Present
  <2> QED
    BY <1>2, <2>1, <2>2 DEF RetryOf
<1> QED
  BY <1>3, <1>4, <1>5, <1>6 DEF Indexed, Lineage

(* The rows a reaper writes: a stale row only ends, a new row is the       *)
(* retry of a row that ends in the same transaction.                       *)
ReapedAs(parent, t) ==
    /\ \A e \in DOMAIN parent :
          /\ e \in ExecId /\ ~Present(execs, e)
          /\ parent[e] \in ExecId \ DOMAIN parent /\ ReapRetries(parent[e])
          /\ t[e].status = "PENDING" /\ t[e].parent = parent[e]
          /\ t[e].job = execs[parent[e]].job
          /\ t[e].attempt = execs[parent[e]].attempt + 1
          /\ t[e].key = RetryKey(parent[e], t[e].attempt)
          /\ t[e].single = ~jobs[t[e].job].allowConcurrent
          /\ ~Dedupes(t[e])
    /\ \A e, f \in DOMAIN parent : parent[e] = parent[f] => e = f
    /\ \A e \in ExecId \ DOMAIN parent :
          /\ SameOrigin(execs[e], t[e])
          /\ Stale(e) => t[e].status = "FAILED"
          /\ ~Stale(e) => t[e] = execs[e]

LEMMA ReapRows ==
    ASSUME TypeOK, NEW parent \in Parents, NEW wait \in [DOMAIN parent -> Delay]
    PROVE  ReapedAs(parent, ReapedTable(parent, wait))
<1> DEFINE t == ReapedTable(parent, wait)
<1>0. \A e \in ExecId :
         t[e] = IF e \in DOMAIN parent THEN ReapRetryRow(parent[e], wait[e])
                ELSE IF Stale(e) THEN FailedRow(e) ELSE execs[e]
  BY DEF ReapedTable
<1> HIDE DEF t
<1>1. ASSUME NEW e \in DOMAIN parent
      PROVE  /\ e \in ExecId /\ ~Present(execs, e)
             /\ parent[e] \in ExecId /\ ReapRetries(parent[e])
  BY DEF Parents, Bijection, Injection, NewIds
<1>2. ASSUME NEW e \in DOMAIN parent
      PROVE  /\ parent[e] \notin DOMAIN parent
             /\ t[e].status = "PENDING"
             /\ t[e].parent = parent[e]
             /\ t[e].job = execs[parent[e]].job
             /\ t[e].attempt = execs[parent[e]].attempt + 1
             /\ t[e].key = RetryKey(parent[e], t[e].attempt)
             /\ t[e].single = ~jobs[t[e].job].allowConcurrent
             /\ ~Dedupes(t[e])
  <2>1. t[e] = ReapRetryRow(parent[e], wait[e])
    BY <1>0, <1>1, <1>2
  <2>2. Present(execs, parent[e])
    BY <1>1 DEF ReapRetries, Stale, Present
  <2>3. ShouldRetry(execs[parent[e]].attempt,
                    jobs[execs[parent[e]].job].maxRetries)
    BY <1>1 DEF ReapRetries
  <2>4. /\ t[e].status = "PENDING"
        /\ t[e].parent = parent[e]
        /\ t[e].job = execs[parent[e]].job
        /\ t[e].attempt = execs[parent[e]].attempt + 1
        /\ t[e].key = RetryKey(parent[e], t[e].attempt)
        /\ t[e].single = ~jobs[t[e].job].allowConcurrent
    BY <2>1, <2>3 DEF ReapRetryRow, RetryRow, PendingRow, NextAttempt
  <2>5. /\ t[e].job = ReapRetryRow(parent[e], 0).job
        /\ t[e].key = ReapRetryRow(parent[e], 0).key
    BY <2>1 DEF ReapRetryRow, RetryRow, PendingRow
  <2>6. ~Dedupes(ReapRetryRow(parent[e], 0))
    BY <1>1 DEF ReapRetries
  <2> QED
    BY <1>1, <2>2, <2>4, <2>5, <2>6 DEF Dedupes, KeyTaken
<1>3. \A e, f \in DOMAIN parent : parent[e] = parent[f] => e = f
  BY DEF Parents, Bijection, Injection, IsInjective
<1>4. ASSUME NEW e \in ExecId \ DOMAIN parent
      PROVE  /\ SameOrigin(execs[e], t[e])
             /\ Stale(e) => t[e].status = "FAILED"
             /\ ~Stale(e) => t[e] = execs[e]
  <2>1. t[e] = IF Stale(e) THEN FailedRow(e) ELSE execs[e]
    BY <1>0, <1>4
  <2>2. execs[e] \in ExecRow
    BY DEF TypeOK
  <2> QED
    BY <2>1, <2>2 DEF FailedRow, ExecRow, SameOrigin
<1> QED
  BY <1>1, <1>2, <1>3, <1>4 DEF ReapedAs, t

LEMMA ReapsIndexed ==
    ASSUME TypeOK, Indexed(execs), Blank(execs), Reaps
    PROVE  Indexed(execs') /\ Blank(execs')
<1>1. PICK parent \in Parents : \E wait \in [DOMAIN parent -> Delay] :
         /\ SingleIndex(ReapedTable(parent, wait))
         /\ execs' = ReapedTable(parent, wait)
  BY DEF Reaps
<1>2. SingleIndex(execs')
  BY <1>1
<1>3. ASSUME NEW e \in DOMAIN parent
      PROVE  /\ e \in ExecId /\ ~Present(execs, e)
             /\ parent[e] \in ExecId \ DOMAIN parent /\ Stale(parent[e])
             /\ execs'[e].status = "PENDING"
             /\ execs'[e].parent = parent[e]
             /\ execs'[e].job = execs[parent[e]].job
             /\ execs'[e].attempt = execs[parent[e]].attempt + 1
             /\ execs'[e].key = RetryKey(parent[e], execs'[e].attempt)
             /\ ~KeyTaken(execs, execs'[e])
  BY <1>1, ReapRows DEF ReapedAs, ReapRetries, Dedupes
<1>4. \A e, f \in DOMAIN parent : parent[e] = parent[f] => e = f
  BY <1>1, ReapRows DEF ReapedAs
<1>5. ASSUME NEW e \in ExecId \ DOMAIN parent
      PROVE  /\ SameOrigin(execs[e], execs'[e])
             /\ Present(execs', e) <=> Present(execs, e)
             /\ Stale(e) => execs'[e].status = "FAILED"
             /\ ~Stale(e) => execs'[e] = execs[e]
  BY <1>1, ReapRows DEF ReapedAs, Stale, Present
<1>6. KeyIndex(execs')
  <2> SUFFICES ASSUME NEW e \in ExecId, NEW f \in ExecId,
                      Present(execs', e), Present(execs', f),
                      execs'[e].job = execs'[f].job,
                      execs'[e].key = execs'[f].key
               PROVE  e = f
    BY DEF KeyIndex
  <2>1. CASE e \in DOMAIN parent /\ f \in DOMAIN parent
    <3>1. RetryKey(parent[e], execs'[e].attempt).of
             = RetryKey(parent[f], execs'[f].attempt).of
      BY <1>3, <2>1
    <3>2. parent[e] = parent[f]
      BY <3>1 DEF RetryKey
    <3> QED
      BY <1>4, <2>1, <3>2
  <2>2. CASE e \in DOMAIN parent /\ f \notin DOMAIN parent
    BY <1>3, <1>5, <2>2 DEF KeyTaken, SameOrigin
  <2>3. CASE e \notin DOMAIN parent /\ f \in DOMAIN parent
    BY <1>3, <1>5, <2>3 DEF KeyTaken, SameOrigin
  <2>4. CASE e \notin DOMAIN parent /\ f \notin DOMAIN parent
    BY <1>5, <2>4 DEF Indexed, KeyIndex, SameOrigin
  <2> QED
    BY <2>1, <2>2, <2>3, <2>4
<1>7. Blank(execs')
  BY <1>3, <1>5 DEF Blank, SameOrigin, Present
<1>8. ASSUME NEW f \in ExecId, execs'[f].key.kind = "retry"
      PROVE  RetryOf(execs', execs'[f])
  <2>1. CASE f \in DOMAIN parent
    <3>1. execs'[parent[f]].status = "FAILED"
          /\ SameOrigin(execs[parent[f]], execs'[parent[f]])
      BY <1>3, <1>5, <2>1
    <3> QED
      BY <1>3, <2>1, <3>1 DEF RetryOf, SameOrigin
  <2>2. CASE f \notin DOMAIN parent
    <3>1. RetryOf(execs, execs[f]) /\ SameOrigin(execs[f], execs'[f])
      BY <1>5, <1>8, <2>2 DEF Indexed, Lineage, SameOrigin
    <3> DEFINE p == execs[f].parent
    <3>2. p \in ExecId \ DOMAIN parent /\ ~Stale(p)
      BY <1>3, <3>1 DEF RetryOf, Present, Stale
    <3>3. execs'[p] = execs[p]
      BY <1>5, <3>2
    <3> QED
      BY <3>1, <3>2, <3>3 DEF RetryOf, SameOrigin
  <2> QED
    BY <2>1, <2>2
<1> QED
  BY <1>2, <1>6, <1>7, <1>8 DEF Indexed, Lineage

(***************************************************************************)
(* Calls and retries in progress                                           *)
(***************************************************************************)
(* No call outlives a reaper's patience. *)
Short == CallLimit <= StaleAfter

(* While a short call is open its row is RUNNING and exactly as old as the *)
(* call, and neither a claim nor a call outlives CallLimit.                *)
CallsLive ==
    \A w \in Worker, e \in ExecId :
        /\ e \in In(w, "selected") => tasks[w][e].time <= CallLimit
        /\ Short /\ e \in In(w, "calling") =>
              /\ execs[e].status = "RUNNING"
              /\ execs[e].age = tasks[w][e].time
              /\ tasks[w][e].time <= CallLimit

InProgress == CallsLive /\ RetryPhase

(* What RetryPhase and CallsLive see of a row. *)
KeepsRow(e) ==
    /\ execs'[e].status = execs[e].status /\ execs'[e].age = execs[e].age
    /\ execs'[e].attempt = execs[e].attempt

LEMMA ProgressKept ==
    ASSUME InProgress,
           \A w \in Worker, e \in ExecId :
              \/ tasks'[w][e] = tasks[w][e]
              \/ tasks'[w][e].phase \in {"none", "ok", "ko"},
           \A w \in Worker, e \in ExecId :
              \/ Short /\ tasks[w][e].phase = "calling"
              \/ tasks[w][e].phase = "retry"
              => KeepsRow(e) \/ tasks'[w][e].phase = "none"
    PROVE  InProgress'
<1>1. ASSUME NEW w \in Worker, NEW e \in ExecId,
             tasks'[w][e].phase \in {"selected", "calling", "retry"}
      PROVE  /\ tasks'[w][e] = tasks[w][e]
             /\ Short /\ tasks[w][e].phase = "calling" => KeepsRow(e)
             /\ tasks[w][e].phase = "retry" => KeepsRow(e)
  BY <1>1
<1>2. CallsLive'
  BY <1>1 DEF InProgress, CallsLive, In, KeepsRow
<1>3. RetryPhase'
  BY <1>1 DEF InProgress, RetryPhase, In, KeepsRow
<1> QED
  BY <1>2, <1>3 DEF InProgress

LEMMA InsertProgress ==
    ASSUME IInv, InProgress, UNCHANGED tasks,
           Inserts \/ UNCHANGED execs
    PROVE  InProgress'
<1>1. CASE UNCHANGED execs
  BY <1>1, ProgressKept DEF KeepsRow
<1>2. CASE Inserts
  <2>1. PICK e, row : e \in ExecId /\ ~Present(execs, e) /\ Insert(e, row)
    BY <1>2 DEF Inserts
  <2>2. ASSUME NEW w \in Worker, NEW f \in ExecId, tasks[w][f].phase # "none"
        PROVE  KeepsRow(f)
    <3>1. f # e
      BY <2>1, <2>2, TaskedIsPresent DEF IInv, Present
    <3> QED
      BY <2>1, <3>1 DEF Insert, IInv, TypeOK, KeepsRow
  <2> QED
    BY <2>2, ProgressKept
<1> QED
  BY <1>1, <1>2

LEMMA ReapProgress ==
    ASSUME IInv, InProgress, Reaps, UNCHANGED tasks
    PROVE  InProgress'
<1>1. PICK parent \in Parents : \E wait \in [DOMAIN parent -> Delay] :
         execs' = ReapedTable(parent, wait)
  BY DEF Reaps
<1>2. ASSUME NEW w \in Worker, NEW e \in ExecId,
             \/ Short /\ tasks[w][e].phase = "calling"
             \/ tasks[w][e].phase = "retry"
      PROVE  KeepsRow(e)
  <2>1. ~Stale(e)
    <3>1. CASE Short /\ tasks[w][e].phase = "calling"
      <4>1. /\ execs[e].age = tasks[w][e].time
            /\ tasks[w][e].time <= CallLimit /\ tasks[w][e].time \in Nat
        BY <3>1 DEF InProgress, CallsLive, In, IInv, TypeOK, Task
      <4> QED
        BY <3>1, <4>1, StaleAssumption, WorkerAssumption
        DEF Short, Stale, IsStale
    <3>2. CASE tasks[w][e].phase = "retry"
      BY <3>2 DEF InProgress, RetryPhase, In, Stale
    <3> QED
      BY <1>2, <3>1, <3>2
  <2>2. Present(execs, e)
    BY <1>2, TaskedIsPresent DEF IInv, Present
  <2>3. execs'[e] = execs[e]
    BY <1>1, <2>1, <2>2, ReapRows DEF ReapedAs, IInv
  <2> QED
    BY <2>3 DEF KeepsRow
<1> QED
  BY <1>2, ProgressKept

LEMMA ClaimSelectProgress ==
    ASSUME IInv, InProgress, NEW w \in Worker, ClaimSelect(w)
    PROVE  InProgress'
<1>1. PICK batch \in Batches :
         tasks' = [tasks EXCEPT ![w] =
               [e \in ExecId |-> IF e \in batch THEN Selected(e)
                                 ELSE tasks[w][e]]]
  BY DEF ClaimSelect
<1>2. \A v \in Worker, e \in ExecId :
         tasks'[v][e] = IF v = w /\ e \in batch THEN Selected(e)
                        ELSE tasks[v][e]
  BY <1>1 DEF IInv, TypeOK
<1>3. UNCHANGED execs
  BY DEF ClaimSelect, store
<1>4. \A e \in ExecId : Selected(e).phase = "selected" /\ Selected(e).time = 0
  BY DEF Selected
<1>5. 0 <= CallLimit
  BY WorkerAssumption
<1>6. CallsLive'
  BY <1>2, <1>3, <1>4, <1>5 DEF InProgress, CallsLive, In
<1>7. RetryPhase'
  BY <1>2, <1>3, <1>4 DEF InProgress, RetryPhase, In
<1> QED
  BY <1>6, <1>7 DEF InProgress

LEMMA StampRows ==
    ASSUME IInv, NEW w \in Worker, Stamp(w), NEW e \in ExecId
    PROVE  IF e \in In(w, "selected")
           THEN /\ execs'[e].status = "RUNNING"
                /\ execs'[e].age = tasks[w][e].time
           ELSE execs'[e] = execs[e]
<1>1. execs[e] \in ExecRow
  BY DEF IInv, TypeOK
<1>2. e \in In(w, "selected") => execs'[e] = Stamped(w, e)
  BY DEF Stamp
<1>3. /\ Stamped(w, e).status = "RUNNING"
      /\ Stamped(w, e).age = tasks[w][e].time
  BY <1>1 DEF Stamped, ExecRow
<1> QED
  BY <1>2, <1>3 DEF Stamp

LEMMA ClaimCommitProgress ==
    ASSUME IInv, InProgress, NEW w \in Worker, ClaimCommit(w)
    PROVE  InProgress'
<1>1. Stamp(w)
  BY DEF ClaimCommit
<1>2. \A v \in Worker, e \in ExecId :
         tasks'[v][e] = IF v = w /\ e \in In(w, "selected")
                        THEN [tasks[w][e] EXCEPT !.phase = "calling"]
                        ELSE tasks[v][e]
  BY DEF ClaimCommit, IInv, TypeOK
<1>3. \A e \in ExecId :
         LET task == [tasks[w][e] EXCEPT !.phase = "calling"]
         IN  task.phase = "calling" /\ task.time = tasks[w][e].time
  BY DEF IInv, TypeOK, Task
<1>4. ASSUME NEW v \in Worker, NEW e \in ExecId
      PROVE  /\ e \in In(v, "selected")' => tasks'[v][e].time <= CallLimit
             /\ Short /\ e \in In(v, "calling")' =>
                   /\ execs'[e].status = "RUNNING"
                   /\ execs'[e].age = tasks'[v][e].time
                   /\ tasks'[v][e].time <= CallLimit
             /\ e \in In(v, "retry")' =>
                   /\ execs'[e].status = "FAILED"
                   /\ ShouldRetry(execs'[e].attempt, tasks'[v][e].maxRetries)
  <2>1. CASE e \in In(w, "selected")
    <3>1. CASE v = w
      <4>1. tasks'[w][e].phase = "calling" /\ tasks'[w][e].time = tasks[w][e].time
        BY <1>2, <1>3, <2>1
      <4>2. tasks[w][e].time <= CallLimit
        BY <2>1 DEF InProgress, CallsLive
      <4>3. execs'[e].status = "RUNNING" /\ execs'[e].age = tasks[w][e].time
        BY <1>1, <2>1, StampRows
      <4> QED
        BY <3>1, <4>1, <4>2, <4>3 DEF In
    <3>2. CASE v # w
      <4>1. tasks[v][e].phase = "none"
        BY <2>1, <3>2 DEF IInv, ClaimIsExclusive
      <4>2. tasks'[v][e] = tasks[v][e]
        BY <1>2, <3>2
      <4> QED
        BY <4>1, <4>2 DEF In
    <3> QED
      BY <3>1, <3>2
  <2>2. CASE e \notin In(w, "selected")
    <3>1. tasks'[v][e] = tasks[v][e] /\ execs'[e] = execs[e]
      BY <1>1, <1>2, <2>2, StampRows
    <3> QED
      BY <3>1 DEF InProgress, CallsLive, RetryPhase, In
  <2> QED
    BY <2>1, <2>2
<1> QED
  BY <1>4 DEF InProgress, CallsLive, RetryPhase

LEMMA TaskProgress ==
    ASSUME IInv, InProgress, NEW w \in Worker, NEW e \in ExecId,
           TaskStep(w, e)
    PROVE  InProgress'
<1> USE DEF IInv
<1>1. tasks[w][e] \in Task /\ execs[e] \in ExecRow
  BY DEF TypeOK
<1>2. NoTask.phase = "none"
  BY DEF NoTask
<1>3. ASSUME NEW result \in {"ok", "ko"}, CallEnds(w, e, result)
      PROVE  InProgress'
  <2> DEFINE task == [tasks[w][e] EXCEPT !.phase = result, !.time = 0]
  <2>1. task.phase = result
    BY <1>1 DEF Task
  <2>2. SetTask(w, e, task) /\ UNCHANGED execs
    BY <1>3 DEF CallEnds, store
  <2> HIDE DEF task
  <2>3. \A v \in Worker, f \in ExecId :
           tasks'[v][f] = IF v = w /\ f = e THEN task ELSE tasks[v][f]
    BY <2>2, SetTaskPhases
  <2> QED
    BY <2>1, <2>2, <2>3, ProgressKept DEF KeepsRow
<1>4. CASE RecordSuccess(w, e)
  <2>1. tasks[w][e].phase = "ok" /\ execs' = RecordedTable(w, e, "SUCCEEDED")
    BY <1>4 DEF RecordSuccess, In
  <2>2. /\ execs[e].lockedBy = w
        /\ \A f \in ExecId \ {e} : execs'[f] = execs[f]
    BY <2>1, RecordSteps
  <2>3. \A v \in Worker, f \in ExecId :
           tasks'[v][f] = IF v = w /\ f = e THEN NoTask ELSE tasks[v][f]
    BY <1>4, SetTaskPhases DEF RecordSuccess
  <2>4. ASSUME NEW v \in Worker, tasks[v][e].phase \in {"calling", "retry"}
        PROVE  FALSE
    BY <2>1, <2>2, <2>4 DEF ClaimIsExclusive, Owns
  <2> QED
    BY <1>2, <2>2, <2>3, <2>4, ProgressKept DEF KeepsRow
<1>5. CASE RecordFailure(w, e)
  <2>1. tasks[w][e].phase = "ko" /\ execs' = RecordedTable(w, e, "FAILED")
    BY <1>5 DEF RecordFailure, In
  <2>2. /\ execs[e].lockedBy = w /\ execs'[e].status = "FAILED"
        /\ \A f \in ExecId \ {e} : execs'[f] = execs[f]
    BY <2>1, RecordSteps
  <2>3. \A v \in Worker, f \in ExecId :
           tasks'[v][f] = IF v = w /\ f = e THEN AfterFailure(w, e)
                          ELSE tasks[v][f]
    BY <1>5, SetTaskPhases DEF RecordFailure
  <2>4. ASSUME NEW v \in Worker, tasks[v][e].phase \in {"calling", "retry"}
        PROVE  FALSE
    BY <2>1, <2>2, <2>4 DEF ClaimIsExclusive, Owns
  <2>5. execs'[e].attempt = execs[e].attempt
    BY <2>1, RecordSteady DEF Steady, SameOrigin
  <2>6. \/ AfterFailure(w, e).phase = "none"
        \/ /\ AfterFailure(w, e).phase = "retry"
           /\ ShouldRetry(execs[e].attempt, AfterFailure(w, e).maxRetries)
    BY <1>1, <1>2 DEF AfterFailure, Task
  <2>7. ASSUME NEW v \in Worker, NEW f \in ExecId
        PROVE  /\ f \in In(v, "selected")' => tasks'[v][f].time <= CallLimit
               /\ Short /\ f \in In(v, "calling")' =>
                     /\ execs'[f].status = "RUNNING"
                     /\ execs'[f].age = tasks'[v][f].time
                     /\ tasks'[v][f].time <= CallLimit
               /\ f \in In(v, "retry")' =>
                     /\ execs'[f].status = "FAILED"
                     /\ ShouldRetry(execs'[f].attempt, tasks'[v][f].maxRetries)
    <3>1. CASE f # e
      <4>1. tasks'[v][f] = tasks[v][f] /\ execs'[f] = execs[f]
        BY <2>2, <2>3, <3>1
      <4> QED
        BY <4>1 DEF InProgress, CallsLive, RetryPhase, In
    <3>2. CASE f = e /\ v = w
      BY <2>2, <2>3, <2>5, <2>6, <3>2 DEF In
    <3>3. CASE f = e /\ v # w
      <4>1. tasks'[v][e] = tasks[v][e]
        BY <2>3, <3>3
      <4> QED
        BY <2>4, <3>3, <4>1 DEF InProgress, CallsLive, In
    <3> QED
      BY <3>1, <3>2, <3>3
  <2> QED
    BY <2>7 DEF InProgress, CallsLive, RetryPhase
<1>6. CASE ScheduleRetry(w, e)
  <2>1. \A v \in Worker, f \in ExecId :
           tasks'[v][f] = IF v = w /\ f = e THEN NoTask ELSE tasks[v][f]
    BY <1>6, SetTaskPhases DEF ScheduleRetry
  <2>2. ASSUME NEW v \in Worker, NEW f \in ExecId, tasks[v][f].phase # "none"
        PROVE  KeepsRow(f)
    <3>1. UNCHANGED execs \/ \E g \in ExecId : \E row :
                                ~Present(execs, g) /\ Insert(g, row)
      BY <1>6 DEF ScheduleRetry, IsNext
    <3>2. Present(execs, f)
      BY <2>2, TaskedIsPresent DEF Present
    <3> QED
      BY <3>1, <3>2 DEF Insert, TypeOK, KeepsRow
  <2> QED
    BY <1>2, <2>1, <2>2, ProgressKept
<1> QED
  BY <1>3, <1>4, <1>5, <1>6 DEF TaskStep

LEMMA FaultProgress ==
    ASSUME IInv, InProgress, NEW w \in Worker, FaultStep(w)
    PROVE  InProgress'
<1> USE DEF IInv
<1>1. NoTask.phase = "none"
  BY DEF NoTask
<1>2. CASE /\ UNCHANGED execs
           /\ tasks' = [tasks EXCEPT ![w] = [e \in ExecId |-> NoTask]]
  BY <1>1, <1>2, NoTasksPhases, ProgressKept DEF KeepsRow
<1>3. CASE ClaimAckLost(w)
  <2>1. \A v \in Worker, f \in ExecId :
           tasks'[v][f] = IF v = w THEN NoTask ELSE tasks[v][f]
    BY <1>3, NoTasksPhases DEF ClaimAckLost
  <2>2. ASSUME NEW v \in Worker, NEW f \in ExecId,
               tasks[v][f].phase \in {"calling", "retry"}
        PROVE  KeepsRow(f)
    <3>1. f \notin In(w, "selected")
      BY <2>2 DEF ClaimIsExclusive, In
    <3> QED
      BY <1>3, <3>1, StampRows DEF ClaimAckLost, KeepsRow
  <2> QED
    BY <1>1, <2>1, <2>2, ProgressKept
<1>4. ASSUME NEW e \in ExecId, QueryFails(w, e)
      PROVE  InProgress'
  <2>1. UNCHANGED execs
    BY <1>4 DEF QueryFails, store
  <2>2. \A v \in Worker, f \in ExecId :
           tasks'[v][f] = IF v = w /\ f = e THEN NoTask ELSE tasks[v][f]
    BY <1>4, SetTaskPhases DEF QueryFails
  <2> QED
    BY <1>1, <2>1, <2>2, ProgressKept DEF KeepsRow
<1> QED
  BY <1>2, <1>3, <1>4 DEF FaultStep, Crash, ClaimFails, store

LEMMA TickProgress ==
    ASSUME IInv, InProgress, Tick
    PROVE  InProgress'
<1> USE DEF IInv
<1>1. ASSUME NEW e \in ExecId
      PROVE  /\ execs'[e].status = execs[e].status
             /\ execs'[e].attempt = execs[e].attempt
  BY TickSteps, TickSteady DEF Steady, SameOrigin
<1>2. ASSUME NEW w \in Worker, NEW e \in ExecId
      PROVE  /\ tasks[w][e].time \in 0..AgeCap
             /\ IF Timed(w, e)
                THEN /\ tasks'[w][e].phase = tasks[w][e].phase
                     /\ tasks'[w][e].time = Older(tasks[w][e].time)
                     /\ tasks[w][e].time < CallLimit
                ELSE tasks'[w][e] = tasks[w][e]
  <2>1. tasks[w][e] \in Task
    BY DEF TypeOK
  <2>2. tasks'[w][e] =
           IF Timed(w, e)
           THEN [tasks[w][e] EXCEPT !.time = Older(tasks[w][e].time)]
           ELSE tasks[w][e]
    BY DEF Tick
  <2>3. Timed(w, e) => tasks[w][e].time < CallLimit
    BY DEF Tick
  <2> QED
    BY <2>1, <2>2, <2>3 DEF Task
<1>3. \A n \in 0..AgeCap : n < CallLimit => Older(n) <= CallLimit
  BY StoreAssumption, WorkerAssumption DEF Older
<1>4. ASSUME NEW e \in ExecId, execs[e].status = "RUNNING"
      PROVE  execs'[e].age = Older(execs[e].age)
  <2> DEFINE wait == IF execs[e].status = "PENDING" /\ execs[e].wait > 0
                     THEN execs[e].wait - 1 ELSE execs[e].wait
  <2>1. execs'[e] = [execs[e] EXCEPT !.wait = wait,
                                     !.age = Older(execs[e].age)]
    BY <1>4 DEF Tick
  <2>2. execs[e] \in ExecRow
    BY DEF TypeOK
  <2> HIDE DEF wait
  <2> QED
    BY <2>1, <2>2 DEF ExecRow
<1>5. CallsLive'
  <2> SUFFICES ASSUME NEW w \in Worker, NEW e \in ExecId
               PROVE  /\ tasks'[w][e].phase = "selected" =>
                            tasks'[w][e].time <= CallLimit
                      /\ Short /\ tasks'[w][e].phase = "calling" =>
                            /\ execs'[e].status = "RUNNING"
                            /\ execs'[e].age = tasks'[w][e].time
                            /\ tasks'[w][e].time <= CallLimit
    BY DEF CallsLive, In
  <2>1. CASE Timed(w, e)
    <3>1. /\ tasks'[w][e].phase = tasks[w][e].phase
          /\ tasks'[w][e].time = Older(tasks[w][e].time)
          /\ tasks'[w][e].time <= CallLimit
      BY <1>2, <1>3, <2>1
    <3>2. Short /\ tasks[w][e].phase = "calling" =>
             execs[e].status = "RUNNING" /\ execs[e].age = tasks[w][e].time
      BY DEF InProgress, CallsLive, In
    <3> QED
      BY <1>1, <1>4, <3>1, <3>2
  <2>2. CASE ~Timed(w, e)
    BY <1>2, <2>2 DEF Timed
  <2> QED
    BY <2>1, <2>2
<1>6. RetryPhase'
  <2> SUFFICES ASSUME NEW w \in Worker, NEW e \in ExecId,
                      tasks'[w][e].phase = "retry"
               PROVE  /\ execs'[e].status = "FAILED"
                      /\ ShouldRetry(execs'[e].attempt,
                                     tasks'[w][e].maxRetries)
    BY DEF RetryPhase, In
  <2>1. tasks'[w][e] = tasks[w][e]
    BY <1>2 DEF Timed
  <2> QED
    BY <1>1, <2>1 DEF InProgress, RetryPhase, In
<1> QED
  BY <1>5, <1>6 DEF InProgress

(***************************************************************************)
(* The invariant                                                           *)
(***************************************************************************)
XInv == IInv /\ Indexed(execs) /\ Blank(execs) /\ InProgress

LEMMA InitXInv == Init => XInv
<1> SUFFICES ASSUME Init
             PROVE  XInv
  OBVIOUS
<1>1. IInv
  BY InitIInv
<1>2. ASSUME NEW e \in ExecId
      PROVE  /\ execs[e].key.kind # "retry"
             /\ ~Present(execs, e) => execs[e].key = NoKey
  <2>1. CASE execs[e] = NoRow
    BY <2>1 DEF NoRow, NoKey
  <2>2. CASE /\ execs[e].status = "PENDING"
             /\ execs[e].key.kind \in {"client", "manual", "schedule"}
    BY <2>2 DEF Present
  <2> QED
    BY <2>1, <2>2, InitAssumption DEF Init
<1>3. SingleIndex(execs) /\ KeyIndex(execs)
  BY InitAssumption DEF Init
<1>4. Indexed(execs) /\ Blank(execs)
  BY <1>2, <1>3 DEF Indexed, Lineage, Blank
<1>5. \A w \in Worker, e \in ExecId : tasks[w][e].phase = "none"
  BY DEF Init, WorkerInit, NoTask
<1>6. InProgress
  BY <1>5 DEF InProgress, CallsLive, RetryPhase, In
<1> QED
  BY <1>1, <1>4, <1>6 DEF XInv

LEMMA NextInProgress ==
    ASSUME IInv, InProgress, Next
    PROVE  InProgress'
<1> USE DEF store
<1>1. UNCHANGED <<execs, tasks>> => InProgress'
  BY ProgressKept DEF KeepsRow
<1>2. ASSUME NEW w \in Worker, WorkerStep(w)
      PROVE  InProgress'
  <2>1. CASE LoopStep(w)
    <3>1. CASE Reap(w)
      BY <3>1, ReapProgress DEF Reap, Reaps
    <3> QED
      BY <1>1, <2>1, <3>1, ClaimSelectProgress, ClaimCommitProgress
      DEF LoopStep, Start, ReapRolledBack, TickEnds
  <2> QED
    BY <1>2, <2>1, FaultProgress, TaskProgress DEF WorkerStep
<1>3. ASSUME NEW j \in Job, SchedulerStep(j), UNCHANGED tasks
      PROVE  InProgress'
  BY <1>3, SchedulerInserts, InsertProgress
<1>4. ASSUME ApiStep, UNCHANGED tasks
      PROVE  InProgress'
  BY <1>4, ApiInserts, InsertProgress DEF IInv
<1> QED
  BY <1>2, <1>3, <1>4, TickProgress DEF Next, workers

LEMMA NextXInv ==
    ASSUME XInv, [Next]_vars
    PROVE  XInv'
<1> USE DEF XInv
<1>1. IInv' /\ RowSteps
  BY NextIInv
<1>2. Inserts \/ Reaps \/ Steady
  BY TableStep DEF InProgress
<1>3. Indexed(execs') /\ Blank(execs')
  BY <1>1, <1>2, InsertsIndexed, ReapsIndexed, SteadyIndexed DEF IInv
<1>4. InProgress'
  <2>1. CASE UNCHANGED vars
    BY <2>1, ProgressKept DEF vars, store, workers, KeepsRow
  <2>2. CASE Next
    BY <2>2, NextInProgress
  <2> QED
    BY <2>1, <2>2
<1>5. (Indexed(execs) /\ Blank(execs))'
  BY <1>3 DEF Indexed, SingleIndex, KeyIndex, Lineage, RetryOf, Blank,
              Present, InFlight
<1> QED
  BY <1>1, <1>4, <1>5

LEMMA XInvariance == Spec => []XInv
<1>1. XInv /\ [Next]_vars => XInv'
  BY NextXInv
<1> QED
  BY InitXInv, <1>1, PTL DEF Spec

(***************************************************************************)
(* Theorems                                                                *)
(***************************************************************************)
(* The two unique indexes hold of the table at every moment, whoever       *)
(* inserts: the API, the scheduler, a worker or a reaper (001_init.sql:    *)
(* 103-112).                                                               *)
THEOREM IndexesHold == Spec => [](SingleIndex(execs) /\ KeyIndex(execs))
<1>1. XInv => SingleIndex(execs) /\ KeyIndex(execs)
  BY DEF XInv, Indexed
<1> QED
  BY XInvariance, <1>1, PTL

(* No two workers, and no two calls of one worker, have an HTTP call open  *)
(* for the same single-run job, as long as no claim and call outlast       *)
(* STALE_LOCK_THRESHOLD_MS: the index is about rows, this about calls.     *)
THEOREM CallsExclusive ==
    ASSUME CallLimit <= StaleAfter
    PROVE  Spec => []OneCallPerSingleJob
<1>1. ASSUME XInv
      PROVE  OneCallPerSingleJob
  <2> SUFFICES ASSUME NEW v \in Worker, NEW w \in Worker,
                      NEW e \in ExecId, NEW f \in ExecId,
                      e \in In(v, "calling"), f \in In(w, "calling"),
                      execs[e].job = execs[f].job,
                      execs[e].single, execs[f].single
               PROVE  v = w /\ e = f
    BY DEF OneCallPerSingleJob
  <2>1. execs[e].status = "RUNNING" /\ execs[f].status = "RUNNING"
    BY <1>1 DEF XInv, InProgress, CallsLive, Short
  <2>2. SingleIndex(execs)
    BY <1>1 DEF XInv, Indexed
  <2>3. e = f
    BY <2>1, <2>2 DEF SingleIndex, InFlight
  <2>4. Owns(v, e) /\ Owns(w, f)
    BY <1>1 DEF XInv, IInv, ClaimIsExclusive, In
  <2> QED
    BY <2>3, <2>4 DEF Owns
<1>2. XInv => OneCallPerSingleJob
  BY <1>1
<1> QED
  BY XInvariance, <1>2, PTL

(* Under the same bound no reaper gives up an execution while its call is  *)
(* open (worker.ts:184-185): the lock is exactly as old as the call.       *)
THEOREM NoEarlyReap ==
    ASSUME CallLimit <= StaleAfter
    PROVE  Spec => NoReapDuringCall
<1>1. ASSUME XInv'
      PROVE  \A w \in Worker, e \in ExecId :
                \/ execs'[e].status = "RUNNING"
                \/ tasks'[w][e].phase # "calling"
  BY <1>1 DEF XInv, InProgress, CallsLive, Short, In
<1>2. XInv' =>
         [\A w \in Worker, e \in ExecId :
             e \in In(w, "calling") /\ execs[e].status = "RUNNING"
                 => \/ execs'[e].status = "RUNNING"
                    \/ tasks'[w][e].phase # "calling"]_vars
  BY <1>1
<1> QED
  BY XInvariance, <1>2, PTL DEF Spec, NoReapDuringCall

(* An execution gets at most one automatic retry, whichever of its worker  *)
(* and the reapers come to insert it and in whatever order, and the retry  *)
(* is the next attempt of an execution that ended (worker.ts:76-88).       *)
THEOREM RetriesOnce == Spec => []RetriedOnce
<1>1. ASSUME XInv
      PROVE  RetriedOnce
  <2>1. Lineage(execs) /\ KeyIndex(execs) /\ Blank(execs)
    BY <1>1 DEF XInv, Indexed
  <2>2. ASSUME NEW f \in ExecId, execs[f].key.kind = "retry"
        PROVE  RetryOf(execs, execs[f]) /\ Present(execs, f)
    BY <2>1, <2>2 DEF Lineage, Blank, NoKey
  <2>3. ASSUME NEW f \in ExecId, NEW g \in ExecId,
               execs[f].key.kind = "retry", execs[g].key.kind = "retry",
               execs[g].parent = execs[f].parent
        PROVE  g = f
    <3>1. execs[f].key = execs[g].key /\ execs[f].job = execs[g].job
      BY <2>2, <2>3 DEF RetryOf
    <3> QED
      BY <2>1, <2>2, <2>3, <3>1 DEF KeyIndex
  <2> QED
    BY <2>2, <2>3 DEF RetriedOnce, RetryOf
<1>2. XInv => RetriedOnce
  BY <1>1
<1> QED
  BY XInvariance, <1>2, PTL
=============================================================================
