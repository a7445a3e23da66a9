--------------------------- MODULE RequestProofs ---------------------------
(* Theorems about what requests and ticks of the scheduler leave behind. *)
EXTENDS RefinementProofs

(***************************************************************************)
(* The slots                                                               *)
(***************************************************************************)
(* A scheduled execution is named after its slot and nothing else. *)
SlotKeys(t) == \A e \in ExecId : t[e].key.kind = "schedule" => t[e].key.n = 0

LEMMA SlotKeysStep ==
    ASSUME XInv, SlotKeys(execs), [Next]_vars
    PROVE  SlotKeys(execs')
<1> SUFFICES ASSUME NEW e \in ExecId, execs'[e].key.kind = "schedule"
             PROVE  execs'[e].key.n = 0
  BY DEF SlotKeys
<1>1. CASE SameOrigin(execs[e], execs'[e])
  BY <1>1 DEF SlotKeys, SameOrigin
<1>2. CASE ~SameOrigin(execs[e], execs'[e])
  <2>1. ~Steady
    BY <1>2 DEF Steady
  <2>2. ASSUME Inserts
        PROVE  execs'[e].key.n = 0
    <3>1. PICK f, row :
             /\ f \in ExecId
             /\ row.key.kind = "schedule" => row.key.n = 0
             /\ Insert(f, row)
      BY <2>2 DEF Inserts
    <3>2. e = f /\ execs'[e] = row
      BY <1>2, <3>1 DEF Insert, SameOrigin, XInv, IInv, TypeOK
    <3> QED
      BY <3>1, <3>2
  <2>3. ASSUME Reaps
        PROVE  FALSE
    <3>1. PICK parent \in Parents : \E wait \in [DOMAIN parent -> Delay] :
             execs' = ReapedTable(parent, wait)
      BY <2>3 DEF Reaps
    <3>2. PICK wait \in [DOMAIN parent -> Delay] :
             execs' = ReapedTable(parent, wait)
      BY <3>1
    <3>3. e \in DOMAIN parent
      BY <1>2, <3>2, ReapRows DEF ReapedAs, XInv, IInv
    <3>4. execs'[e].key = RetryKey(parent[e], execs'[e].attempt)
      BY <3>2, <3>3, ReapRows DEF ReapedAs, XInv, IInv
    <3> QED
      BY <3>4 DEF RetryKey
  <2> QED
    BY <2>1, <2>2, <2>3, TableStep DEF XInv, InProgress
<1> QED
  BY <1>1, <1>2

LEMMA SlotKeysHold == Spec => [](XInv /\ SlotKeys(execs))
<1>1. Init => SlotKeys(execs)
  <2> SUFFICES ASSUME Init, NEW e \in ExecId, execs[e].key.kind = "schedule"
               PROVE  execs[e].key.n = 0
    BY DEF SlotKeys
  <2> QED
    BY InitAssumption DEF Init, NoRow, NoKey
<1>2. XInv /\ SlotKeys(execs) /\ [Next]_vars => SlotKeys(execs)'
  BY SlotKeysStep DEF SlotKeys
<1> QED
  BY <1>1, <1>2, XInvariance, PTL DEF Spec

(***************************************************************************)
(* The answers to Run Now                                                  *)
(***************************************************************************)
(* The execution a client was told it created is there, with the job and   *)
(* the key of the request, and no other client was told the same.          *)
Creation(t, answer) ==
    /\ answer.exec \in ExecId /\ Present(t, answer.exec)
    /\ t[answer.exec].job = answer.job
    /\ answer.key # NoKey => t[answer.exec].key = answer.key
Creations(t, answers) ==
    /\ DOMAIN answers = Client
    /\ \A c \in Client :
          answers[c].kind = "created" => Creation(t, answers[c])
    /\ \A c, d \in Client :
          /\ answers[c].kind = "created" /\ answers[d].kind = "created"
          /\ answers[c].exec = answers[d].exec
          => c = d

(* The row of an answer keeps what the answer says of it. *)
LEMMA CreationStays ==
    ASSUME XInv, [Next]_vars, NEW answer, Creation(execs, answer)
    PROVE  Creation(execs', answer)
<1>1. Present(execs', answer.exec)
  BY NextIInv, RowsStay DEF Creation, XInv
<1>2. SameOrigin(execs[answer.exec], execs'[answer.exec])
  BY RowsKeepOrigin DEF Creation
<1> QED
  BY <1>1, <1>2 DEF Creation, SameOrigin

LEMMA AcceptedCreates ==
    ASSUME XInv, Creations(execs, reply), [Next]_vars, NEW c \in Client,
           req[c].at = "run", RunAccepted(c, req[c])
    PROVE  Creations(execs', reply')
<1> DEFINE r == req[c]
<1>1. PICK e \in ExecId :
         /\ ~Present(execs, e)
         /\ Insert(e, RunRow(r, e))
         /\ Answer(c, "created", r, e)
  BY DEF RunAccepted, IsNext
<1>2. execs'[e] = RunRow(r, e)
  BY <1>1 DEF Insert, XInv, IInv, TypeOK
<1>3. /\ reply'[c] = [kind |-> "created", job |-> r.job, key |-> r.key,
                      exec |-> e]
      /\ \A d \in Client \ {c} : reply'[d] = reply[d]
      /\ DOMAIN reply' = Client
  BY <1>1 DEF Answer, Creations
<1>4. Creation(execs', reply'[c]) /\ reply'[c].exec = e
  BY <1>2, <1>3 DEF Creation, Present, RunRow, PendingRow
<1>5. ASSUME NEW d \in Client \ {c}, reply'[d].kind = "created"
      PROVE  /\ reply[d].kind = "created" /\ reply'[d].exec = reply[d].exec
             /\ Creation(execs', reply'[d]) /\ reply'[d].exec # e
  <2>1. reply'[d] = reply[d] /\ Creation(execs, reply[d])
    BY <1>3, <1>5 DEF Creations
  <2> QED
    BY <1>1, <1>5, <2>1, CreationStays DEF Creation
<1>6. \A d \in Client :
         reply'[d].kind = "created" => Creation(execs', reply'[d])
  BY <1>4, <1>5
<1>7. ASSUME NEW d \in Client, NEW f \in Client,
             reply'[d].kind = "created", reply'[f].kind = "created",
             reply'[d].exec = reply'[f].exec
      PROVE  d = f
  BY <1>4, <1>5, <1>7 DEF Creations
<1> QED
  BY <1>3, <1>6, <1>7 DEF Creations

(* An answer to a deduplicated Run Now creates nothing. *)
LEMMA DedupedAnswers ==
    ASSUME XInv, Creations(execs, reply), [Next]_vars, NEW c \in Client,
           NEW r, NEW e, Answer(c, "deduped", r, e)
    PROVE  Creations(execs', reply')
<1>1. /\ reply'[c].kind # "created"
      /\ \A d \in Client \ {c} : reply'[d] = reply[d]
      /\ DOMAIN reply' = Client
  BY DEF Answer, Creations
<1> QED
  BY <1>1, CreationStays DEF Creations

LEMMA CreationsStep ==
    ASSUME XInv, Creations(execs, reply), [Next]_vars
    PROVE  Creations(execs', reply')
<1>1. ASSUME UNCHANGED reply
      PROVE  Creations(execs', reply')
  BY <1>1, CreationStays DEF Creations
<1>2. ASSUME NEW c \in Client, Respond(c)
      PROVE  Creations(execs', reply')
  <2>1. CASE RunInsert(c) /\ RunAccepted(c, req[c])
    BY <2>1, AcceptedCreates DEF RunInsert
  <2>2. CASE RunLookup(c)
    BY <2>2, DedupedAnswers DEF RunLookup
  <2> QED
    BY <1>1, <1>2, <2>1, <2>2
    DEF Respond, PutWrite, ResumeWrite, RunInsert, RunRejected, RunDeduped,
        RetryInsert
<1>3. ASSUME NEW j \in Job, JobOps(j)
      PROVE  UNCHANGED reply
  BY <1>3 DEF JobOps, CreateJob, Pause, Archive, SetStatus, PutRead,
              ResumeRead, RunRead, clients
<1>4. ASSUME NEW e \in ExecId, ExecOps(e)
      PROVE  UNCHANGED reply
  BY <1>4 DEF ExecOps, RetryRead, clients
<1> QED
  BY <1>1, <1>2, <1>3, <1>4 DEF Next, ApiStep, vars, clients

LEMMA CreationsHold == Spec => [](XInv /\ Creations(execs, reply))
<1>1. Init => Creations(execs, reply)
  BY DEF Init, NoReply, Creations
<1>2. XInv /\ Creations(execs, reply) /\ [Next]_vars
         => Creations(execs, reply)'
  BY CreationsStep DEF Creations, Creation, Present
<1> QED
  BY <1>1, <1>2, XInvariance, PTL DEF Spec

(***************************************************************************)
(* The versions                                                            *)
(***************************************************************************)
(* What a job may become: its version never falls, and its settings change *)
(* only with it; so does a next run that is not there.                     *)
SameSettings(r, s) ==
    /\ s.maxRetries = r.maxRetries /\ s.cron = r.cron
    /\ s.allowConcurrent = r.allowConcurrent
Later(r, s) ==
    r.status # "ABSENT" =>
        /\ s.status # "ABSENT" /\ r.version <= s.version
        /\ s.version = r.version =>
              SameSettings(r, s) /\ (r.nextRun = None => s.nextRun = None)

LEMMA BumpLater ==
    ASSUME NEW r \in JobRow, NEW s \in JobRow,
           s.version = r.version, s.status # "ABSENT"
    PROVE  Later(r, Bump(s))
<1>1. /\ Bump(s).version = r.version + 1 /\ r.version \in Nat
      /\ Bump(s).status = s.status
  BY DEF Bump, JobRow
<1> QED
  BY <1>1 DEF Later

LEMMA SameLater ==
    ASSUME NEW r \in JobRow
    PROVE  Later(r, r)
BY DEF Later, SameSettings, JobRow

(* A write of one job with a new version. *)
LEMMA WriteLater ==
    ASSUME TypeOK, NEW k \in Job, NEW row \in JobRow,
           row.version = jobs[k].version, row.status # "ABSENT",
           SetJob(k, Bump(row))
    PROVE  \A j \in Job : Later(jobs[j], jobs'[j])
<1>1. /\ jobs'[k] = Bump(row)
      /\ \A j \in Job \ {k} : jobs'[j] = jobs[j]
      /\ \A j \in Job : jobs[j] \in JobRow
  BY DEF SetJob, TypeOK
<1> QED
  BY <1>1, BumpLater, SameLater

LEMMA SchedulerLater ==
    ASSUME TypeOK, NEW k \in Job, SchedulerStep(k)
    PROVE  \A j \in Job : Later(jobs[j], jobs'[j])
<1>1. \A j \in Job : jobs[j] \in JobRow
  BY DEF TypeOK
<1>2. CASE SlotDue(k) /\ Advance(k)
  <2>1. /\ \A j \in Job \ {k} : jobs'[j] = jobs[j]
        /\ jobs'[k] = [jobs[k] EXCEPT !.nextRun =
                          NextSlot(jobs[k].cron, jobs[k].nextRun)]
    BY <1>2 DEF Advance, TypeOK
  <2>2. Later(jobs[k], jobs'[k])
    BY <1>1, <1>2, <2>1 DEF SlotDue, Later, SameSettings, JobRow
  <2> QED
    BY <1>1, <2>1, <2>2, SameLater
<1>3. CASE jobs' = [jobs EXCEPT ![k].status = "PAUSED"]
  <2>1. /\ \A j \in Job \ {k} : jobs'[j] = jobs[j]
        /\ jobs'[k] = [jobs[k] EXCEPT !.status = "PAUSED"]
    BY <1>3 DEF TypeOK
  <2>2. Later(jobs[k], jobs'[k])
    BY <1>1, <2>1 DEF Later, SameSettings, JobRow
  <2> QED
    BY <1>1, <2>1, <2>2, SameLater
<1> QED
  BY <1>1, <1>2, <1>3, SameLater
  DEF SchedulerStep, ScheduleSlot, ScheduleBrokenCron, PauseBroken, SkipSlot

LEMMA RespondLater ==
    ASSUME TypeOK, NEW c \in Client, Respond(c)
    PROVE  \A j \in Job : Later(jobs[j], jobs'[j])
<1>1. UNCHANGED jobs => \A j \in Job : Later(jobs[j], jobs'[j])
  BY SameLater DEF TypeOK
<1>2. req[c] \in Request
  BY DEF TypeOK
<1>3. CASE PutWrite(c)
  <2> DEFINE k == req[c].job
             row == Overwrite(jobs[k], req[c].merged)
  <2>1. k \in Job /\ req[c].merged \in JobRow
    BY <1>2, <1>3, RequestFields DEF PutWrite
  <2>2. jobs[k] \in JobRow /\ jobs[k].status # "ABSENT"
    BY <1>3, <2>1 DEF TypeOK, PutWrite, Writable, Exists
  <2>3. row \in JobRow /\ row.version = jobs[k].version
    BY <2>1, <2>2, OverwriteType
  <2>4. row.status # "ABSENT"
    BY <2>1, <2>2 DEF Overwrite, JobRow
  <2>5. SetJob(k, Bump(row)) \/ UNCHANGED jobs
    BY <1>3 DEF PutWrite
  <2> HIDE DEF row
  <2> QED
    BY <1>1, <2>1, <2>3, <2>4, <2>5, WriteLater
<1>4. CASE ResumeWrite(c)
  <2> DEFINE k == req[c].job
             row == [jobs[k] EXCEPT !.status = "ACTIVE",
                                    !.nextRun = req[c].nextRun]
  <2>1. k \in Job /\ req[c].nextRun \in Nat \cup {None}
    BY <1>2, <1>4, RequestFields DEF ResumeWrite
  <2>2. jobs[k] \in JobRow
    BY <2>1 DEF TypeOK
  <2>3. /\ row \in JobRow /\ row.version = jobs[k].version
        /\ row.status # "ABSENT"
    BY <2>1, <2>2 DEF JobRow, JobStatus
  <2>4. SetJob(k, Bump(row))
    BY <1>4 DEF ResumeWrite
  <2> HIDE DEF row
  <2> QED
    BY <2>1, <2>3, <2>4, WriteLater
<1> QED
  BY <1>1, <1>3, <1>4
  DEF Respond, RunInsert, RunLookup, RetryInsert, store

LEMMA JobOpsLater ==
    ASSUME TypeOK, NEW k \in Job, JobOps(k)
    PROVE  \A j \in Job : Later(jobs[j], jobs'[j])
<1>1. \A j \in Job : jobs[j] \in JobRow
  BY DEF TypeOK
<1>2. CASE CreateJob(k)
  <2>1. \A j \in Job \ {k} : jobs'[j] = jobs[j]
    BY <1>2 DEF CreateJob, SetJob, TypeOK
  <2>2. jobs[k].status = "ABSENT"
    BY <1>2 DEF CreateJob, Exists
  <2> QED
    BY <1>1, <2>1, <2>2, SameLater DEF Later
<1>3. ASSUME NEW status \in {"PAUSED", "ARCHIVED"}, SetStatus(k, status)
      PROVE  \A j \in Job : Later(jobs[j], jobs'[j])
  <2> DEFINE row == [jobs[k] EXCEPT !.status = status]
  <2>1. /\ row \in JobRow /\ row.version = jobs[k].version
        /\ row.status # "ABSENT"
    BY <1>1 DEF JobRow, JobStatus
  <2>2. SetJob(k, Bump(row))
    BY <1>3 DEF SetStatus
  <2> HIDE DEF row
  <2> QED
    BY <2>1, <2>2, WriteLater
<1> QED
  BY <1>1, <1>2, <1>3, SameLater
  DEF JobOps, Pause, Archive, PutRead, ResumeRead, RunRead, store

(* Workers, time and the handlers of executions write no job. *)
LEMMA JobsUntouched ==
    ASSUME \/ \E w \in Worker : WorkerStep(w)
           \/ \E e \in ExecId : ExecOps(e)
           \/ Tick
           \/ UNCHANGED vars
    PROVE  UNCHANGED jobs
<1>1. ASSUME NEW w \in Worker, WorkerStep(w)
      PROVE  UNCHANGED jobs
  BY <1>1 DEF WorkerStep, LoopStep, Start, Reap, ReapRolledBack, ClaimSelect,
              ClaimCommit, TickEnds, FaultStep, Crash, ClaimFails,
              ClaimAckLost, QueryFails, TaskStep, CallEnds, RecordSuccess,
              RecordFailure, ScheduleRetry, store, Stamp
<1>2. ASSUME NEW e \in ExecId, ExecOps(e)
      PROVE  UNCHANGED jobs
  BY <1>2 DEF ExecOps, RetryRead, store
<1>3. Tick \/ UNCHANGED vars => UNCHANGED jobs
  BY DEF Tick, vars, store
<1> QED
  BY <1>1, <1>2, <1>3

LEMMA JobsLater ==
    ASSUME TypeOK, [Next]_vars
    PROVE  \A j \in Job : Later(jobs[j], jobs'[j])
<1>1. UNCHANGED jobs => \A j \in Job : Later(jobs[j], jobs'[j])
  BY SameLater DEF TypeOK
<1> QED
  BY <1>1, JobsUntouched, SchedulerLater, RespondLater, JobOpsLater
  DEF Next, ApiStep

(* A PUT in progress read its job at the version it names or later: while  *)
(* the job still has that version, what the body leaves out is in the job  *)
(* as it was read, and it takes away no next run that the job has.         *)
Unscheduled(row) == row.cron # None /\ row.nextRun = None
Kept(row, r) ==
    /\ row.status # "ABSENT"
    /\ r.version <= row.version
    /\ r.version = row.version =>
          /\ \A f \in Settings \ DOMAIN r.patch : r.merged[f] = row[f]
          /\ Unscheduled(r.merged) => Unscheduled(row)
PutKnown ==
    \A c \in Client : req[c].at = "put" => Kept(jobs[req[c].job], req[c])

LEMMA KeptLater ==
    ASSUME NEW r \in JobRow, NEW s \in JobRow, Later(r, s),
           NEW q, q.version \in Nat, Kept(r, q)
    PROVE  Kept(s, q)
<1>1. /\ s.status # "ABSENT" /\ q.version <= s.version
      /\ q.version = s.version => r.version = s.version
  BY DEF Later, Kept, JobRow
<1>2. ASSUME q.version = s.version, NEW f \in Settings \ DOMAIN q.patch
      PROVE  q.merged[f] = s[f]
  <2>1. q.merged[f] = r[f]
    BY <1>1, <1>2 DEF Kept
  <2>2. SameSettings(r, s)
    BY <1>1, <1>2 DEF Later, Kept
  <2> QED
    BY <2>1, <2>2 DEF SameSettings, Settings
<1>3. ASSUME q.version = s.version, Unscheduled(q.merged)
      PROVE  Unscheduled(s)
  BY <1>1, <1>3 DEF Kept, Later, SameSettings, Unscheduled
<1> QED
  BY <1>1, <1>2, <1>3 DEF Kept

(* A cron expression has a next slot. *)
LEMMA ScheduledNext ==
    ASSUME NEW cron \in Cron, now \in 0..MaxSlot
    PROVE  NextRun(cron) \in Nat /\ NextRun(cron) # None
<1>1. cron # None /\ now \in Nat
  BY StoreAssumption
<1> QED
  BY <1>1, NextSlotNat, StoreAssumption DEF NextRun

LEMMA MergeKeeps ==
    ASSUME NEW row \in JobRow, NEW patch \in Patches,
           NEW f \in Settings \ DOMAIN patch
    PROVE  Merge(row, patch)[f] = row[f]
BY DEF Merge, JobRow, Settings

LEMMA MergeSchedules ==
    ASSUME TypeOK, NEW row \in JobRow, NEW patch \in Patches,
           Unscheduled(Merge(row, patch))
    PROVE  Unscheduled(row)
<1>1. CASE "cron" \in DOMAIN patch
  <2>1. /\ patch.cron \in Cron \cup {None}
        /\ Merge(row, patch).cron = patch.cron
        /\ Merge(row, patch).nextRun = NextRun(patch.cron)
    BY <1>1, ApiAssumption DEF Merge, JobRow
  <2>2. patch.cron \in Cron => NextRun(patch.cron) # None
    BY ScheduledNext DEF TypeOK
  <2> QED
    BY <2>1, <2>2 DEF Unscheduled
<1>2. CASE "cron" \notin DOMAIN patch
  BY <1>2 DEF Merge, JobRow, Unscheduled
<1> QED
  BY <1>1, <1>2

(* Only PutRead starts a PUT. *)
LEMMA PutStarts ==
    ASSUME TypeOK, Next, NEW c \in Client,
           req'[c].at = "put", req'[c] # req[c]
    PROVE  \E j \in Job : PutRead(c, j)
<1>1. ApiStep
  BY DEF Next, clients
<1>2. ASSUME NEW d \in Client, Respond(d)
      PROVE  FALSE
  <2>1. \/ req' = [req EXCEPT ![d] = NoReq]
        \/ req' = [req EXCEPT ![d] = [req[d] EXCEPT !.at = "lookup"]]
    BY <1>2 DEF Respond, PutWrite, ResumeWrite, RunInsert, RunAccepted,
                RunRejected, RunDeduped, RunLookup, RetryInsert, End, TypeOK
  <2>2. NoReq.at # "put" /\ [req[d] EXCEPT !.at = "lookup"].at = "lookup"
    BY DEF NoReq, TypeOK, Request
  <2> QED
    BY <2>1, <2>2 DEF TypeOK
<1>3. ~\E e \in ExecId : ExecOps(e)
  BY DEF ExecOps, RetryRead, Begin, TypeOK, clients
<1>4. PICK j \in Job : JobOps(j)
  BY <1>1, <1>2, <1>3 DEF ApiStep
<1>5. PICK d \in Client : PutRead(d, j)
  BY <1>4 DEF JobOps, CreateJob, Pause, Archive, SetStatus, ResumeRead,
              RunRead, Begin, TypeOK, clients
<1>6. d = c
  BY <1>5 DEF PutRead, Begin, TypeOK
<1> QED
  BY <1>5, <1>6

LEMMA PutFields ==
    ASSUME NEW r \in Request, r.at = "put"
    PROVE  r.job \in Job /\ r.version \in Nat /\ r.merged \in JobRow
BY DEF Request

LEMMA PutKnownStep ==
    ASSUME TypeOK, TypeOK', PutKnown, [Next]_vars
    PROVE  PutKnown'
<1> SUFFICES ASSUME NEW c \in Client, req'[c].at = "put"
             PROVE  Kept(jobs'[req'[c].job], req'[c])
  BY DEF PutKnown
<1>1. CASE req'[c] = req[c]
  <2>1. req[c].job \in Job /\ req[c].version \in Nat
    BY <1>1, PutFields DEF TypeOK
  <2>2. Kept(jobs[req[c].job], req[c])
    BY <1>1 DEF PutKnown
  <2>3. Later(jobs[req[c].job], jobs'[req[c].job])
    BY <2>1, JobsLater
  <2>4. /\ jobs[req[c].job] \in JobRow
        /\ jobs'[req[c].job] \in JobRow
    BY <2>1 DEF TypeOK
  <2> QED
    BY <1>1, <2>1, <2>2, <2>3, <2>4, KeptLater
<1>2. CASE req'[c] # req[c]
  <2>1. PICK j \in Job : PutRead(c, j)
    BY <1>2, PutStarts DEF vars, clients
  <2>2. PICK patch \in Patches, version \in 1..jobs[j].version :
           Begin(c, [at |-> "put", job |-> j, version |-> version,
                     patch |-> patch, merged |-> Merge(jobs[j], patch)])
    BY <2>1 DEF PutRead
  <2>3. req'[c] = [at |-> "put", job |-> j, version |-> version,
                   patch |-> patch, merged |-> Merge(jobs[j], patch)]
    BY <2>2 DEF Begin, TypeOK
  <2>4. jobs' = jobs /\ jobs[j].status # "ABSENT" /\ jobs[j] \in JobRow
    BY <2>1 DEF PutRead, store, Exists, TypeOK
  <2>5. version <= jobs[j].version
    BY <2>4 DEF JobRow
  <2> QED
    BY <2>3, <2>4, <2>5, MergeKeeps, MergeSchedules DEF Kept
<1> QED
  BY <1>1, <1>2

LEMMA PutKnownHolds == Spec => [](XInv /\ PutKnown)
<1>1. Init => PutKnown
  BY DEF Init, NoReq, PutKnown
<1>2. XInv /\ XInv' /\ PutKnown /\ [Next]_vars => PutKnown'
  BY PutKnownStep DEF XInv, IInv
<1> QED
  BY <1>1, <1>2, XInvariance, PTL DEF Spec

(* Only PutWrite ends a PUT. *)
LEMMA PutEnds ==
    ASSUME TypeOK, Next, NEW c \in Client,
           req[c].at = "put", req'[c] = NoReq
    PROVE  PutWrite(c)
<1>1. NoReq.at # "put" /\ req'[c] # req[c]
  BY DEF NoReq
<1>2. ApiStep
  BY <1>1 DEF Next, clients
<1>3. ASSUME NEW d \in Client, Respond(d)
      PROVE  PutWrite(c)
  <2>1. d = c
    BY <1>1, <1>3 DEF Respond, PutWrite, ResumeWrite, RunInsert, RunAccepted,
                      RunRejected, RunDeduped, RunLookup, RetryInsert, End,
                      TypeOK
  <2> QED
    BY <1>3, <2>1 DEF Respond, ResumeWrite, RunInsert, RunLookup, RetryInsert
<1>4. ~\E e \in ExecId : ExecOps(e)
  BY <1>1 DEF ExecOps, RetryRead, Begin, Idle, TypeOK, clients
<1>5. ~\E j \in Job : JobOps(j)
  BY <1>1 DEF JobOps, CreateJob, Pause, Archive, SetStatus, PutRead,
              ResumeRead, RunRead, Begin, Idle, TypeOK, clients
<1> QED
  BY <1>2, <1>3, <1>4, <1>5 DEF ApiStep

LEMMA PutKeeps ==
    ASSUME TypeOK, PutKnown, Next, NEW c \in Client,
           req[c].at = "put", req'[c] = NoReq, jobs' # jobs
    PROVE  LET j == req[c].job
           IN  /\ jobs[j].version = req[c].version
               /\ \A f \in Settings \ DOMAIN req[c].patch :
                     jobs'[j][f] = jobs[j][f]
<1> DEFINE j == req[c].job
           row == jobs[j]
           merged == req[c].merged
<1>1. j \in Job /\ merged \in JobRow /\ row \in JobRow
  BY PutFields DEF TypeOK
<1>2. /\ row.version = req[c].version
      /\ SetJob(j, Bump(Overwrite(row, merged)))
  BY PutEnds DEF PutWrite, VersionMatches
<1>3. jobs'[j] = Bump(Overwrite(row, merged))
  BY <1>1, <1>2 DEF SetJob, TypeOK
<1>4. Kept(row, req[c])
  BY DEF PutKnown
<1>5. ASSUME NEW f \in Settings \ DOMAIN req[c].patch
      PROVE  jobs'[j][f] = row[f]
  <2>1. merged[f] = row[f]
    BY <1>2, <1>4 DEF Kept
  <2>2. Bump(Overwrite(row, merged))[f] = merged[f]
    BY <1>1 DEF Bump, Overwrite, JobRow, Settings
  <2> QED
    BY <1>3, <2>1, <2>2
<1> QED
  BY <1>2, <1>5

(***************************************************************************)
(* Theorems                                                                *)
(***************************************************************************)
(* A slot is never queued twice, whatever writes next_run_at back to it:   *)
(* its key is made from the slot alone (scheduler.ts:42, 54-77).           *)
THEOREM SlotsOnce == Spec => []SlotRunsOnce
<1>1. ASSUME XInv, SlotKeys(execs)
      PROVE  SlotRunsOnce
  <2> SUFFICES ASSUME NEW e \in ExecId, NEW f \in ExecId,
                      execs[e].key.kind = "schedule",
                      execs[f].key.kind = "schedule",
                      execs[e].job = execs[f].job,
                      execs[e].key.of = execs[f].key.of
               PROVE  e = f
    BY DEF SlotRunsOnce
  <2>1. execs[e].key \in Key /\ execs[f].key \in Key
    BY <1>1 DEF XInv, IInv, TypeOK, ExecRow
  <2>2. execs[e].key = execs[f].key
    BY <1>1, <2>1 DEF SlotKeys, Key
  <2>3. Present(execs, e) /\ Present(execs, f)
    BY <1>1 DEF XInv, Blank, NoKey
  <2> QED
    BY <1>1, <2>2, <2>3 DEF XInv, Indexed, KeyIndex
<1>2. XInv /\ SlotKeys(execs) => SlotRunsOnce
  BY <1>1
<1> QED
  BY <1>2, SlotKeysHold, PTL

(* Of all the requests with one Idempotency-Key for a job at most one is   *)
(* answered "created", however the inserts and the lookups interleave      *)
(* (jobRoutes.ts:166-209).                                                 *)
THEOREM CreatorUnique == Spec => []OneCreatorPerKey
<1>1. ASSUME XInv, Creations(execs, reply)
      PROVE  OneCreatorPerKey
  BY <1>1 DEF OneCreatorPerKey, Creations, Creation, XInv, Indexed, KeyIndex
<1>2. XInv /\ Creations(execs, reply) => OneCreatorPerKey
  BY <1>1
<1> QED
  BY <1>2, CreationsHold, PTL

(* A PUT whose UPDATE matched the client's version changes nothing that    *)
(* its body leaves out, though it writes every setting from a row it read  *)
(* an await earlier (jobRoutes.ts:95-131).                                 *)
THEOREM UpdatesKept == Spec => NoLostUpdate
<1>1. XInv /\ PutKnown /\ [Next]_vars =>
         [\A c \in Client :
             req[c].at = "put" /\ req'[c] = NoReq /\ jobs' # jobs =>
                 LET j == req[c].job
                 IN  /\ jobs[j].version = req[c].version
                     /\ \A f \in Settings \ DOMAIN req[c].patch :
                           jobs'[j][f] = jobs[j][f]]_vars
  BY PutKeeps DEF XInv, IInv
<1> QED
  BY <1>1, PutKnownHolds, PTL DEF Spec, NoLostUpdate

(***************************************************************************)
(* Who writes a job                                                        *)
(***************************************************************************)
Advances(j) ==
    /\ SlotDue(j) /\ Advance(j)
    /\ Enqueue(j) \/ (Violates(SlotRow(j)) /\ UNCHANGED execs)
Puts(c, j) ==
    /\ req[c].at = "put" /\ req[c].job = j /\ jobs[j].version = req[c].version
    /\ jobs'[j] = Bump(Overwrite(jobs[j], req[c].merged))
Resumes(c, j) ==
    /\ req[c].at = "resume" /\ req[c].job = j /\ req'[c] = NoReq
    /\ jobs'[j] = Bump([jobs[j] EXCEPT !.status = "ACTIVE",
                                       !.nextRun = req[c].nextRun])
Stops(j) ==
    /\ jobs'[j].status # "ACTIVE"
    /\ jobs'[j].nextRun = jobs[j].nextRun
    /\ jobs'[j].allowConcurrent = jobs[j].allowConcurrent
Creates(j) ==
    /\ ~Exists(j)
    /\ jobs'[j].cron # None => jobs'[j].nextRun # None

(* All that can become of a job in one step. *)
Written(j) ==
    \/ jobs'[j] = jobs[j]
    \/ Creates(j) \/ Stops(j) \/ Advances(j)
    \/ \E c \in Client : Puts(c, j) \/ Resumes(c, j)

LEMMA SchedulerWrites ==
    ASSUME TypeOK, NEW j \in Job, NEW k \in Job, SchedulerStep(k)
    PROVE  Written(j)
<1>1. j # k => jobs'[j] = jobs[j]
  BY DEF SchedulerStep, ScheduleSlot, ScheduleBrokenCron, PauseBroken,
         SkipSlot, Advance, TypeOK
<1>2. CASE j = k /\ ScheduleSlot(k)
  BY <1>2 DEF ScheduleSlot, Written, Advances
<1>3. CASE j = k /\ ScheduleBrokenCron(k)
  BY <1>3 DEF ScheduleBrokenCron, PauseBroken, Written, Stops, TypeOK, JobRow
<1>4. CASE j = k /\ SkipSlot(k)
  BY <1>4 DEF SkipSlot, Written, Advances
<1> QED
  BY <1>1, <1>2, <1>3, <1>4 DEF SchedulerStep, Written

LEMMA RespondWrites ==
    ASSUME TypeOK, NEW j \in Job, NEW c \in Client, Respond(c)
    PROVE  Written(j)
<1>1. UNCHANGED jobs => Written(j)
  BY DEF Written
<1>2. CASE PutWrite(c)
  <2>1. req[c].job = j /\ ~UNCHANGED jobs => Puts(c, j)
    BY <1>2 DEF PutWrite, VersionMatches, SetJob, Puts, TypeOK
  <2>2. req[c].job # j => jobs'[j] = jobs[j]
    BY <1>2 DEF PutWrite, SetJob, TypeOK
  <2> QED
    BY <1>1, <2>1, <2>2 DEF Written
<1>3. CASE ResumeWrite(c)
  <2>1. req[c].job = j => Resumes(c, j)
    BY <1>3 DEF ResumeWrite, SetJob, End, Resumes, TypeOK
  <2>2. req[c].job # j => jobs'[j] = jobs[j]
    BY <1>3 DEF ResumeWrite, SetJob, TypeOK
  <2> QED
    BY <2>1, <2>2 DEF Written
<1> QED
  BY <1>1, <1>2, <1>3 DEF Respond, RunInsert, RunLookup, RetryInsert, store

LEMMA JobOpsWrite ==
    ASSUME TypeOK, NEW j \in Job, NEW k \in Job, JobOps(k)
    PROVE  Written(j)
<1>1. CASE CreateJob(k)
  <2>1. PICK cron \in Cron \cup {None}, limit \in RetryLimits,
             concurrent \in BOOLEAN :
           SetJob(k, [status |-> "ACTIVE", maxRetries |-> limit,
                      allowConcurrent |-> concurrent, cron |-> cron,
                      nextRun |-> NextRun(cron), version |-> 1])
    BY <1>1 DEF CreateJob
  <2>2. j # k => jobs'[j] = jobs[j]
    BY <2>1 DEF SetJob, TypeOK
  <2>3. jobs'[k].cron = cron /\ jobs'[k].nextRun = NextRun(cron)
    BY <2>1 DEF SetJob, TypeOK
  <2>4. cron # None => NextRun(cron) # None
    BY ScheduledNext DEF TypeOK
  <2> QED
    BY <1>1, <2>2, <2>3, <2>4 DEF CreateJob, Creates, Written
<1>2. ASSUME NEW status \in {"PAUSED", "ARCHIVED"}, SetStatus(k, status)
      PROVE  Written(j)
  <2>1. j # k => jobs'[j] = jobs[j]
    BY <1>2 DEF SetStatus, SetJob, TypeOK
  <2>2. /\ jobs'[k] = Bump([jobs[k] EXCEPT !.status = status])
        /\ jobs[k] \in JobRow
    BY <1>2 DEF SetStatus, SetJob, TypeOK
  <2>3. Stops(k)
    BY <2>2 DEF Bump, JobRow, Stops
  <2> QED
    BY <2>1, <2>3 DEF Written
<1> QED
  BY <1>1, <1>2
  DEF JobOps, Pause, Archive, PutRead, ResumeRead, RunRead, store, Written

LEMMA JobWrites ==
    ASSUME TypeOK, [Next]_vars, NEW j \in Job
    PROVE  Written(j)
<1>1. UNCHANGED jobs => Written(j)
  BY DEF Written
<1> QED
  BY <1>1, JobsUntouched, SchedulerWrites, RespondWrites, JobOpsWrite
  DEF Next, ApiStep

(***************************************************************************)
(* Slots passed over                                                       *)
(***************************************************************************)
LEMMA DivMod ==
    ASSUME NEW c \in Nat \ {0}, NEW n \in Nat
    PROVE  /\ n \div c \in Nat /\ (n % c) \in Nat
           /\ n = c * (n \div c) + (n % c)
OBVIOUS

LEMMA MultipleAfter ==
    ASSUME NEW c \in Nat \ {0}, NEW p \in Nat, NEW q \in Nat, p < q
    PROVE  c * p + c <= c * q
<1>1. \A d \in Nat : c * (p + 1 + d) = c * p + c + c * d /\ c * d \in Nat
  OBVIOUS
<1>2. PICK d \in Nat : q = p + 1 + d
  <2>1. q - (p + 1) \in Nat /\ q = p + 1 + (q - (p + 1))
    OBVIOUS
  <2> QED
    BY <2>1
<1>3. c * p \in Nat
  OBVIOUS
<1> QED
  BY <1>1, <1>2, <1>3

LEMMA NextSlotIs ==
    ASSUME NEW cron \in Nat \ {0}, NEW n \in Nat
    PROVE  /\ NextSlot(cron, n) = cron * (n \div cron) + cron
           /\ n < NextSlot(cron, n)
<1>1. /\ n \div cron \in Nat /\ (n % cron) < cron
      /\ n = cron * (n \div cron) + (n % cron)
  OBVIOUS
<1>2. \A p \in Nat : (p + 1) * cron = cron * p + cron /\ cron * p \in Nat
  OBVIOUS
<1> QED
  BY <1>1, <1>2, DivMod DEF NextSlot

(* Between a slot and the next one there is none. *)
LEMMA NoSlotBetween ==
    ASSUME NEW cron \in Nat \ {0}, NEW n \in Nat, NEW slot \in Nat,
           n < slot, slot < NextSlot(cron, n)
    PROVE  (slot % cron) # 0
<1> DEFINE p == n \div cron
           q == slot \div cron
<1>1. /\ p \in Nat /\ q \in Nat
      /\ cron * p <= n /\ slot < cron * p + cron
      /\ slot = cron * q + (slot % cron) /\ cron * q <= slot
  <2>1. /\ p \in Nat /\ (n % cron) \in Nat
        /\ n = cron * p + (n % cron)
    BY DivMod
  <2>2. /\ q \in Nat /\ (slot % cron) \in Nat
        /\ slot = cron * q + (slot % cron)
    BY DivMod
  <2>3. slot < cron * p + cron
    BY NextSlotIs
  <2>4. \A a \in Nat : cron * a \in Nat
    OBVIOUS
  <2> HIDE DEF p, q
  <2> QED
    BY <2>1, <2>2, <2>3, <2>4
<1>2. cron * p \in Nat /\ cron * q \in Nat
  BY <1>1
<1> HIDE DEF p, q
<1>3. q <= p
  <2>1. p < q => cron * p + cron <= cron * q
    BY <1>1, MultipleAfter
  <2> QED
    BY <1>1, <1>2, <2>1
<1>4. cron * q <= cron * p
  <2>1. q < p => cron * q + cron <= cron * p
    BY <1>1, MultipleAfter
  <2> QED
    BY <1>1, <1>2, <1>3, <2>1
<1> QED
  BY <1>1, <1>2, <1>4

(* A slot that is passed has its execution, or finds one in the way. *)
Handled(t, j, slot) ==
    \E e \in ExecId :
        /\ t[e].job = j
        /\ \/ t[e].key = ScheduleKey(slot)
           \/ InFlight(t, e) /\ t[e].single

LEMMA AdvanceHandles ==
    ASSUME TypeOK, NEW j \in Job, Advances(j)
    PROVE  Handled(execs', j, jobs[j].nextRun)
<1> DEFINE row == SlotRow(j)
<1>1. row.job = j /\ row.key = ScheduleKey(jobs[j].nextRun)
  BY DEF SlotRow, PendingRow
<1>2. ASSUME KeyTaken(execs, row), UNCHANGED execs
      PROVE  Handled(execs', j, jobs[j].nextRun)
  BY <1>1, <1>2 DEF KeyTaken, Handled
<1>3. ASSUME SingleTaken(execs, row), UNCHANGED execs
      PROVE  Handled(execs', j, jobs[j].nextRun)
  BY <1>1, <1>3 DEF SingleTaken, Handled
<1>4. ASSUME NEW e \in ExecId, Insert(e, row)
      PROVE  Handled(execs', j, jobs[j].nextRun)
  BY <1>1, <1>4 DEF Insert, Handled, TypeOK
<1> QED
  BY <1>2, <1>3, <1>4 DEF Advances, Enqueue, Dedupes, Violates

LEMMA SlotsHandled ==
    ASSUME TypeOK, [Next]_vars, NEW j \in Job, Exists(j),
           jobs'[j].version = jobs[j].version,
           jobs'[j].nextRun # jobs[j].nextRun
    PROVE  /\ jobs[j].nextRun <= now /\ jobs[j].nextRun < jobs'[j].nextRun
           /\ \A slot \in jobs[j].nextRun..(jobs'[j].nextRun - 1) :
                 slot % jobs[j].cron = 0 => Handled(execs', j, slot)
<1>1. jobs[j] \in JobRow
  BY DEF TypeOK
<1>2. ASSUME NEW c \in Client
      PROVE  ~Puts(c, j) /\ ~Resumes(c, j)
  <2>1. ASSUME Puts(c, j)
        PROVE  FALSE
    <3>1. req[c].merged \in JobRow
      BY <2>1, RequestFields DEF Puts, TypeOK
    <3>2. /\ Overwrite(jobs[j], req[c].merged) \in JobRow
          /\ Overwrite(jobs[j], req[c].merged).version = jobs[j].version
      BY <1>1, <3>1, OverwriteType
    <3>3. jobs'[j].version = jobs[j].version + 1 /\ jobs[j].version \in Nat
      BY <1>1, <2>1, <3>2 DEF Puts, Bump, JobRow
    <3> QED
      BY <3>3
  <2>2. ASSUME Resumes(c, j)
        PROVE  FALSE
    <3>1. jobs'[j].version = jobs[j].version + 1 /\ jobs[j].version \in Nat
      BY <1>1, <2>2 DEF Resumes, Bump, JobRow
    <3> QED
      BY <3>1
  <2> QED
    BY <2>1, <2>2
<1>3. Advances(j)
  BY <1>2, JobWrites DEF Written, Creates, Stops
<1> DEFINE n == jobs[j].nextRun
           cron == jobs[j].cron
<1>4. n \in Nat /\ n <= now /\ cron \in Cron /\ cron \in Nat \ {0}
  BY <1>1, <1>3, StoreAssumption DEF Advances, SlotDue, JobRow
<1>5. jobs'[j].nextRun = NextSlot(cron, n)
  BY <1>1, <1>3 DEF Advances, Advance, TypeOK, JobRow
<1>6. ASSUME NEW slot \in n..(jobs'[j].nextRun - 1), slot % cron = 0
      PROVE  Handled(execs', j, slot)
  <2>1. NextSlot(cron, n) \in Nat
    BY <1>4, NextSlotNat
  <2>2. slot \in Nat /\ n <= slot /\ slot < NextSlot(cron, n)
    BY <1>4, <1>5, <2>1
  <2>3. n < slot => (slot % cron) # 0
    BY <1>4, <2>2, NoSlotBetween
  <2>4. slot = n
    <3> HIDE DEF n, cron
    <3> QED
      BY <1>4, <1>6, <2>2, <2>3
  <2> QED
    BY <1>3, <2>4, AdvanceHandles
<1> QED
  BY <1>4, <1>5, <1>6, NextSlotIs

(***************************************************************************)
(* Next runs taken away                                                    *)
(***************************************************************************)
LEMMA OnlyResumeForgets ==
    ASSUME TypeOK, PutKnown, [Next]_vars, NEW j \in Job,
           ~NeverScheduled(j), NeverScheduled(j)'
    PROVE  \E c \in Client :
              /\ req[c].at = "resume" /\ req'[c] = NoReq
              /\ req[c].job = j /\ req[c].nextRun = None
<1>1. jobs[j] \in JobRow
  BY DEF TypeOK
<1>2. jobs'[j] # jobs[j] /\ ~Creates(j) /\ ~Stops(j)
  BY DEF NeverScheduled, Creates, Stops
<1>3. ~Advances(j)
  <2> SUFFICES ASSUME Advances(j)
               PROVE  FALSE
    OBVIOUS
  <2>1. /\ jobs[j].nextRun \in Nat /\ jobs[j].cron \in Cron
        /\ jobs'[j].nextRun = NextSlot(jobs[j].cron, jobs[j].nextRun)
    BY <1>1 DEF Advances, SlotDue, Advance, TypeOK, JobRow
  <2>2. jobs'[j].nextRun \in Nat
    BY <2>1, NextSlotNat
  <2> QED
    BY <2>2, StoreAssumption DEF NeverScheduled
<1>4. ASSUME NEW c \in Client, Puts(c, j)
      PROVE  FALSE
  <2> DEFINE merged == req[c].merged
  <2>1. merged \in JobRow /\ Kept(jobs[j], req[c])
    BY <1>4, RequestFields DEF Puts, PutKnown, TypeOK
  <2>2. /\ jobs'[j].status = jobs[j].status
        /\ jobs'[j].cron = merged.cron /\ jobs'[j].nextRun = merged.nextRun
    BY <1>1, <1>4, <2>1 DEF Puts, Bump, Overwrite, JobRow
  <2>3. Unscheduled(merged)
    BY <2>2 DEF NeverScheduled, Unscheduled
  <2>4. Unscheduled(jobs[j])
    BY <1>4, <2>1, <2>3 DEF Kept, Puts
  <2> QED
    BY <2>2, <2>4 DEF NeverScheduled, Unscheduled
<1>5. PICK c \in Client : Resumes(c, j)
  BY <1>2, <1>3, <1>4, JobWrites DEF Written
<1>6. jobs'[j].nextRun = req[c].nextRun
  BY <1>1, <1>5 DEF Resumes, Bump, JobRow
<1> QED
  BY <1>5, <1>6 DEF Resumes, NeverScheduled

(***************************************************************************)
(* Theorems                                                                *)
(***************************************************************************)
(* The scheduler passes over no slot, whatever runs beside it and however  *)
(* late it is (scheduler.ts:17-19, 41-77, 106-109).                        *)
THEOREM SlotsKept == Spec => NoSlotLost
<1>1. ASSUME TypeOK, [Next]_vars, NEW j \in Job, Exists(j),
             jobs'[j].version = jobs[j].version,
             jobs'[j].nextRun # jobs[j].nextRun
      PROVE  /\ jobs[j].nextRun <= now /\ jobs[j].nextRun < jobs'[j].nextRun
             /\ \A slot \in jobs[j].nextRun..(jobs'[j].nextRun - 1) :
                   slot % jobs[j].cron = 0 =>
                      \E e \in ExecId :
                         /\ execs'[e].job = j
                         /\ \/ execs'[e].key = ScheduleKey(slot)
                            \/ InFlight(execs', e) /\ execs'[e].single
  BY <1>1, SlotsHandled DEF Handled
<1>2. TypeOK /\ [Next]_vars =>
         [\A j \in Job :
             /\ Exists(j) /\ jobs'[j].version = jobs[j].version
             /\ jobs'[j].nextRun # jobs[j].nextRun
             => /\ jobs[j].nextRun <= now /\ jobs[j].nextRun < jobs'[j].nextRun
                /\ \A slot \in jobs[j].nextRun..(jobs'[j].nextRun - 1) :
                      slot % jobs[j].cron = 0 =>
                         \E e \in ExecId :
                            /\ execs'[e].job = j
                            /\ \/ execs'[e].key = ScheduleKey(slot)
                               \/ InFlight(execs', e) /\ execs'[e].single]_vars
  BY <1>1
<1> QED
  BY <1>2, TypeCorrect, PTL DEF Spec, NoSlotLost

(* An active job with a cron expression keeps a next run: a PUT that       *)
(* writes an old row back does not take it away, only a resume that read   *)
(* the job before it had an expression (jobRoutes.ts:103-131, 151-164).    *)
THEOREM NextRunStays == Spec => NextRunKept
<1>1. XInv /\ PutKnown /\ [Next]_vars =>
         [\A j \in Job :
             NeverScheduled(j)' /\ ~NeverScheduled(j) =>
                 \E c \in Client :
                    /\ req[c].at = "resume" /\ req'[c] = NoReq
                    /\ req[c].job = j /\ req[c].nextRun = None]_vars
  BY OnlyResumeForgets DEF XInv, IInv
<1> QED
  BY <1>1, PutKnownHolds, PTL DEF Spec, NextRunKept
=============================================================================
