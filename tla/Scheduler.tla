----------------------------- MODULE Scheduler -----------------------------
(***************************************************************************)
(* backend/src/scheduler.ts: tick().  It locks every due job, skipping the *)
(* jobs another instance has locked, and handles each inside a savepoint.  *)
(* The effects on one job do not depend on those on another and the locks  *)
(* are held until the commit, so the tick is modelled as one step per job. *)
(***************************************************************************)
EXTENDS Store

SlotDue(j) ==
    /\ jobs[j].status = "ACTIVE"
    /\ jobs[j].cron # None
    /\ jobs[j].nextRun # None /\ jobs[j].nextRun <= now

SlotRow(j) ==
    PendingRow(j, 1, None, ScheduleKey(jobs[j].nextRun),
               ~jobs[j].allowConcurrent, 0)

(* Mutant: the next slot is computed from the present, not from the slot.  *)
Advance_FromNow(j) ==
    jobs' = [jobs EXCEPT ![j].nextRun = NextSlot(jobs[j].cron, now)]

(* next_run_at moves to the slot after the one handled; version does not.  *)
Advance(j) ==
    jobs' = [jobs EXCEPT ![j].nextRun = NextSlot(jobs[j].cron, @)]

(* The INSERT put the row in, or its key was there already. *)
Enqueue(j) ==
    \/ /\ Accepts(SlotRow(j))
       /\ \E e \in ExecId : IsNext(e) /\ Insert(e, SlotRow(j))
    \/ /\ Dedupes(SlotRow(j))
       /\ UNCHANGED execs

ScheduleSlot(j) ==
    /\ SlotDue(j)
    /\ Parses(jobs[j].cron)
    /\ Enqueue(j)
    /\ Advance(j)
    /\ UNCHANGED now

(* Mutant: the error is logged and the job left as it is. *)
PauseBroken_Logged(j) == UNCHANGED jobs

(* The expression cannot be parsed any more: what was enqueued stays, and  *)
(* the job is paused.                                                      *)
PauseBroken(j) == jobs' = [jobs EXCEPT ![j].status = "PAUSED"]
ScheduleBrokenCron(j) ==
    /\ SlotDue(j)
    /\ ~Parses(jobs[j].cron)
    /\ Enqueue(j)
    /\ PauseBroken(j)
    /\ UNCHANGED now

(* Error 23505: an execution is in flight, so the slot is skipped; when    *)
(* the expression cannot be parsed either, nothing changes at all.         *)
SkipSlot(j) ==
    /\ SlotDue(j)
    /\ Violates(SlotRow(j))
    /\ \/ Parses(jobs[j].cron) /\ Advance(j)
       \/ ~Parses(jobs[j].cron) /\ UNCHANGED jobs
    /\ UNCHANGED <<execs, now>>
=============================================================================
