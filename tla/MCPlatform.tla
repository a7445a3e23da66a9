----------------------------- MODULE MCPlatform -----------------------------
(* Small instances of the platform for TLC. *)
EXTENDS Platform, TLC

WorkerSymmetry == Permutations(Worker)
ClientSymmetry == Permutations(Client)
Symmetry == WorkerSymmetry \cup ClientSymmetry

JobOf(status, limit, concurrent, cron, nextRun) ==
    [status |-> status, maxRetries |-> limit, allowConcurrent |-> concurrent,
     cron |-> cron, nextRun |-> nextRun, version |-> 1]

FirstRun(j, single) == PendingRow(j, 1, None, FreshKey(0), single, 0)
Table(rows) ==
    [e \in ExecId |-> IF e \in DOMAIN rows THEN rows[e] ELSE NoRow]

(* What the jobs table may hold at the start, all jobs alike. *)
AllJobs(row) == [j \in Job |-> row]
OneRetry == {AllJobs(JobOf("ACTIVE", 1, FALSE, None, None))}
EitherKind ==
    {AllJobs(JobOf("ACTIVE", 1, concurrent, None, None)) :
        concurrent \in BOOLEAN}
(* One job forbids concurrent runs; the others allow them, are not retried *)
(* and, their version being at its bound, not edited.                      *)
ForbiddingJob == CHOOSE j \in Job : TRUE
OneForbids ==
    {[j \in Job |->
        IF j = ForbiddingJob THEN JobOf("ACTIVE", 1, FALSE, None, None)
        ELSE [JobOf("ACTIVE", 0, TRUE, None, None)
                 EXCEPT !.version = MaxVersion]]}
NoJob ==
    {AllJobs(JobOf("ABSENT", 0, FALSE, None, None))}
Scheduled ==
    {AllJobs(JobOf("ACTIVE", 0, concurrent, 1, 1)) : concurrent \in BOOLEAN}
BrokenSchedule ==
    {AllJobs(JobOf("ACTIVE", 0, concurrent, 2, 2)) : concurrent \in BOOLEAN}
ScheduledOrNot == Scheduled \cup BrokenSchedule \cup NoJob
OneRetryConcurrent == {AllJobs(JobOf("ACTIVE", 1, TRUE, None, None))}

(* What the executions table may hold. *)
TwoRuns(j) ==
    Table(<<FirstRun(j, FALSE),
            [FirstRun(j, FALSE) EXCEPT !.key = FreshKey(2)]>>)
TwoConcurrent == {TwoRuns(j) : j \in Job}
OneQueued == {Table(<<FirstRun(j, TRUE)>>) : j \in Job}
OneOrTwoQueued ==
    {Table(<<FirstRun(ForbiddingJob, TRUE)>>)}
    \cup {TwoRuns(j) : j \in Job \ {ForbiddingJob}}
Queued == OneQueued \cup TwoConcurrent
NothingQueued == {Table(<<>>)}

(* Bodies of PUT. *)
ScheduleSettings ==
    {[allowConcurrent |-> TRUE], [cron |-> 1], [cron |-> None]}
AllowConcurrent == {[allowConcurrent |-> TRUE]}
DisallowConcurrent == {[allowConcurrent |-> FALSE]}
=============================================================================
