# A TLA+ model of the job automation platform

The platform runs HTTP calls ("jobs") on request and on a schedule. API
processes, schedulers and workers never talk to each other: they meet in
PostgreSQL tables, and everything that keeps them out of each other's way is a
unique index, a row lock or a `WHERE` clause. This directory models those tables
and every statement that writes them, the two pure policies (retry, HTTP call),
the way from an empty database to a serving API, and the browser tab that shows
it all. TLC checks small instances; TLAPS proves every safety property the
passing runs check, for every instance or, for four of them, under a condition
that the theorem states.

Paths are relative to `backend/src/` of the repository unless they start with
another directory.

## 1. The system

| Part | State it keeps | Operations | Talks to |
|---|---|---|---|
| Execution store (`migrations/001_init.sql`, `db.ts`) | tables `jobs`, `executions`, `users`; indexes `uq_job_single_inflight`, `uq_job_idempotency` | single statements, transactions | everybody |
| Worker (`worker.ts`) | its polling loop; the rows of its batch, held in memory | reap, claim (two statements in a transaction), call, record, insert the retry | store, HTTP executor, retry policy |
| Retry policy (`retryPolicy.ts`) | none | `decideRetry`, `isStale` | used by the worker |
| HTTP executor (`httpExecutor.ts`) | one call: abort timer, status, body | `executeHttpJob` | the job's target |
| Scheduler (`scheduler.ts`) | none outside the store | `tick`: every due job in a savepoint | store |
| Job API (`routes/jobRoutes.ts`, `errors.ts`) | what a handler read before its last `await` | create, update, pause, resume, archive, Run Now; list, get, stats | store |
| Execution API (`routes/executionRoutes.ts`, `errors.ts`) | the same | manual retry, cancel (never succeeds, finding 6); history, get | store |
| Authentication (`auth.ts`, `routes/authRoutes.ts`) | table `users`; what a handler read before bcrypt | register, login, token check | store |
| Migration runner (`migrate.ts`) | `schema_migrations`, the schema | apply the files not yet applied, each in a transaction | store |
| Process entry (`index.ts`, `docker-compose.yml`) | which parts run in this process, open requests | start after the migrations, serve, SIGTERM | API, scheduler, worker |
| Frontend (`frontend/`) | token in local storage; what each page fetched last, loads and handlers in progress | sign in, open pages, search, poll, press buttons | API |

**How they interact.** An execution row is inserted by the API (Run Now, manual
retry), the scheduler (a due slot), a worker (retry after a failure) or a
reaper (retry of a lost execution). A worker claims it, calls the target and
records the outcome. Jobs are written by the API and by the scheduler
(`next_run_at`, and `PAUSED` when a cron expression cannot be parsed).
A runner brings the schema; compose starts the API when a
runner has exited with 0. A browser's form registers or signs in, stores the
token, and its pages read and write through the API from then on.

**What is hard.** Any number of workers, schedulers and migration runners run at
once. Workers die between two statements, lose statements, or lose the answer to
a `COMMIT`; so do runners. Calls take time, locks grow old, and the reaper
decides by age alone. Handlers read, await and then write; a browser's answers
overtake one another. The single-inflight index is partial and depends on a
column copied from the job when the row was inserted, so rows made under
different settings live side by side. `PROJECT.json` lists every hazard at its
line.

**What makes each part correct.**
- Store: both unique indexes hold (theorem `IndexesHold`).
- Worker: claims are exclusive; calls of a single-run job never overlap; every
  failure within the limit is retried once and once only; a run that succeeded
  stays so; a lost execution is recovered, and no reaper is stuck; what is queued
  is taken.
- Scheduler: no slot is lost or queued twice, every due slot is handled.
- Job and execution API: one execution per idempotency key; no lost update;
  an active job with a schedule has a next run.
- All of these together keep the promise of an abstract ledger of runs, which
  knows no worker, request, lock or age (`RunLedger`).
- Retry policy: exactly `maxRetries` retries, with growing delays.
- HTTP executor: a call always ends, and says why it failed.
- Migration runner: the ledger lists exactly the files whose objects exist; of
  several runners not all fail, and none waits for ever.
- Authentication: one account per address; a session is never locked out; every
  answer is true when it is given, as if a request were one step (`Directory`).
- Process entry: no request meets a database without its tables.
- Frontend: a job page left open ends up to date; a handler ends with its effect
  shown; the spinner stops.

## 2. Modules and how they correspond to the code

| Module | Models |
|---|---|
| `RetryPolicy` | `retryPolicy.ts`: decision, next attempt, backoff with cap and jitter, staleness |
| `Store` | the two tables as functions, keys, rows as `INSERT` makes them, both indexes, cron slots |
| `Worker` | `worker.ts`: `pc` is the place in the polling loop, `tasks[w][e]` what worker `w` is doing with execution `e` |
| `Api` | the writing handlers of `jobRoutes.ts` and `executionRoutes.ts`; `req[c]` is a handler suspended at an `await`, `reply[c]` the last 201 or 200 to a Run Now |
| `Scheduler` | `scheduler.ts` |
| `RunLedger` | the abstract specification: what becomes of a run, whoever acts |
| `Platform` | composition of `Worker`, `Api`, `Scheduler`: `Init`, `Next`, fairness, all properties of the whole, the refinement mapping to `RunLedger` |
| `MCPlatform` | initial tables, PUT bodies and symmetry for TLC |
| `HttpExecutor` | `httpExecutor.ts`: one call against an arbitrary target |
| `RetryChain` | the attempts of one run: calls of `HttpExecutor`, decided upon by `RetryPolicy` (`processExecution`) |
| `Migrations` | `migrate.ts`: `runner[r]` is the place in the loop over the files |
| `Accounts` | `authRoutes.ts` and the sign-in form: `form[c]` is a request at its `await` (before or after bcrypt, or between the `INSERT` and the answer), `session[c]` the credentials behind the stored token |
| `Directory` | the abstract specification of registering and signing in: each acts in one step |
| `Deployment` | composition of `Migrations`, `Accounts` and the API process (`index.ts`, `docker-compose.yml`); the refinement mapping to `Directory` |
| `Frontend` | one browser tab: `loads` are the `load()` calls in progress, `acts` the button handlers (`frontend/src/app`, `api.ts`, and the handlers that answer reads) |
| `PlatformProofs` | types, exclusive claims, life of an execution |
| `ExclusionProofs` | indexes, calls, retries |
| `RefinementProofs` | `Platform` implements `RunLedger` |
| `RequestProofs` | idempotency keys, PUT; slots queued once and not passed over, no next run taken away |
| `RetryProofs` | no failure left without its retry, no reaper stuck |
| `ChainProofs` | `RetryChain` |
| `DeploymentProofs` | `Deployment`, and that it implements `Directory` |
| `FrontendProofs` | `Frontend` |

`Platform` EXTENDS `Worker`, `Api` and `Scheduler`, which share `Store`;
`Worker` and `RetryChain` use `RetryPolicy`. Each proof module EXTENDS what it is
about, those of `Platform` one another in the order of the table.

**The refinements.** `Platform!Entry` reads a row as a ledger entry: status, job,
whether it takes the job's single place, owner, and of which run it is the
automatic retry. `KeepsLedger == Ledger!Spec` says that every step of any actor
is then a step of `RunLedger`: runs are queued, taken (all of a step by one
owner) or closed, keep their origin and owner, never share a single
place, and are retried at most once, after their end. A reaping, which
fails several runs and queues their retries, is one step of the ledger.

`Deployment!Request` reads a form as a request of `Directory`: a registration
that has looked at the table, or is hashing, has still to act; the `INSERT` is
the step that acts, even if its answer is lost; a comparison in progress is a
sign-in that has still to be answered. `KeepsDirectory` says that every answer
is then true at the moment it is given, although a handler decides on what it
read before bcrypt, and that a killed or stopped process loses answers only.

**Grain of atomicity.** One action per SQL statement, or per transaction where
the transaction cannot be observed in the middle. The claim is two actions: the
`SELECT ... FOR UPDATE SKIP LOCKED` (`ClaimSelect`; the row locks are "some
worker has a task in phase `selected`", `Locked`) and the `UPDATE` with its
commit (`ClaimCommit`), because another worker, a Run Now or a crash can come
between them. The reaper's transaction is one action: other transactions see none or
all of its rows, and its only mid-way effect, blocking, delays others. Marking
an execution FAILED and inserting its retry are two statements in the code and
two actions here. A scheduler tick is one action per due job: the tick holds the
job's row lock until its commit, the jobs of a tick are disjoint, and every error
is caught in the job's own savepoint.

**Abstractions.**
- Time is a tick. `age` of a row is the age of `locked_at`, `wait` the time to
  `scheduled_for`; both saturate or stop where no test can tell more. A call is
  ended by its abort timer at the latest after `CallLimit` ticks, counted from
  the start of the claim transaction, which is what `now()` stamps.
- A cron expression is the distance between its slots on the clock `now`.
  `BrokenCron` are those that cron-parser accepted once and rejects now: no handler
  takes them any more, but rows may still hold them. The empty string, which the
  code treats as no schedule everywhere but in the column, is `None`.
- A PUT names a version the client can have seen, never one ahead of the row that
  the handler reads.
- `ORDER BY scheduled_for` is dropped: which due rows a claim takes is arbitrary.
- Ids are given out in order, so the order of ids is that of `created_at`.
- An idempotency key is a record of who made it and from what; `Millis` are the
  readings of `Date.now()` that two manual retries may share.
- Ownership (`owner_id`), names, URLs, headers and response texts are left out.
- A handler that ends in 400, 404 or 500 before writing has no action. Cancel is
  one of these always (finding 6); no row is ever CANCELLED.
- SIGTERM is a `Crash`: nothing waits for open calls (`index.ts:52-59`, `worker.ts:370`).
- The reaper's branch for a missing job does not exist: jobs are only archived
  and the foreign key forbids the rest.
- Rows beyond `MaxExec` cannot be inserted and a job at `MaxVersion` cannot be
  written: these guards only cut behaviours off.
- A migration is the set of objects its file creates. A statement that creates
  an object waits while another open transaction has created it, and fails if
  that one commits: PostgreSQL's rule, modelled from how `migrate.ts` relies on it.
- Bcrypt is equality of passwords; the answer to a refused login does not say why.
- An answered form keeps the credentials only where a property is about them (an
  account created, a login denied), and a runner that has failed or died forgets
  its place among the files: it starts again from the first.
- What a page shows is the revision of the server's data it was read from. Loads
  and handlers of a page that has been left change nothing (React ignores them),
  but for the new-job handler, which still opens the page of the job it made.

The mutants (`X_Suffix` operators next to the definition `X` they replace) are
plausible bugs, one for every checked property, each of which breaks it.

## 3. Runs

| Run | Instance | Shows |
|---|---|---|
| `workers` | 3 workers, all may crash, lose claims and statements; 4 rows, one retry; starts with one queued row, or with two of a job whose concurrent runs were switched off | types, exclusive claims and calls, one retry, no early reap, success final, and the refinement of `RunLedger` |
| `recovery` | 2 workers, one may crash, claims may be lost, calls longer (2) than the stale threshold (1), batches of one, 3 rows; a job that forbids concurrent runs until a PUT allows them, or two queued rows of one that allows them; fair | each failure is retried, and once, even when the reaper and the late owner both fail it, by different settings; what is lost is given up, what is queued is taken although the batch is full |
| `api` | 2 clients, 1 worker whose claims may be lost: Run Now with and without a key, manual retry; a job that allows concurrent runs or forbids them, 3 rows, one retry | API writers against the claim, the retry and each other, statement by statement; the reaper's retries find their place beside another execution in flight |
| `schedule` | 2 clients: create, PUT of the schedule or the concurrency, pause, resume, archive; 2 ticks, 3 versions, two expressions, one of which no longer parses, fair | no slot lost or queued twice, all handled; optimistic locking; only a resume loses a next run |
| `attempts` | limits 0, 1 and 7, base 7, cap 300, all jitters; statuses at the edges of 2xx, a timer of 2 ticks, all timings | number and growth of the retries; every call ends, with its reason, and so does the run |
| `deployment` | 2 runners, one of which may break anywhere and is run again; 2 files; 2 browsers, one address, two passwords; API started, stopped, killed, started again; fair | schema and ledger agree, no request without tables, some runner goes on, all end; one account, session kept; the refinement of `Directory` |
| `frontend` | 2 filters, a job page of two reads, 2 loads at once, one handler, one change of the data, one failure, token that expires; fair | convergence of the job page, own writes shown, spinner stops |
| `overlap` | timeout 120 s, threshold 90 s (4 and 3 ticks) | finding 1 |
| `retry_lost` | one worker, one client | finding 2 |
| `reaper_stuck` | one worker, one PUT, faults, fair | finding 3 |
| `dedupe` | one worker, one client, one key | finding 4 |
| `slow_body` | two statuses, a timer of 10 ticks | finding 5 |

**Why the bounds are enough.** Every property of the platform relates at most two
executions of one job, two workers and one reaper: three workers let the owner, a
reaper that is not the owner, and a later claimer be different processes. Three
or four rows hold an execution, its retry, the retry's retry and an unrelated
row. The threshold is at least one tick and the age cap lies beyond it, so fresh,
just at the threshold, and stale are distinct; jobs meet only in a worker's batch,
so one suffices except in `recovery`, whose batches hold one row of two jobs. With limit 7 and base 7 the delays reach the cap on the way. Two
files let a runner lose a race at the first and win at the second; two runners
and two browsers are the two sides of each race. In `frontend` one change of the
data is enough to tell stale from current, and two loads to let one overtake the
other. The theorems do not depend on any of these numbers.

**Fairness.** `Platform!FairSpec` assumes that time passes, that a live worker's
event loop runs on (`LoopStep`, `TaskStep`), that an HTTP call ends (its abort
timer: `attempts` checks it), that the scheduler's `setInterval` fires (fairness of
its whole step on a job, `SchedulerStep`, not of the branches that succeed: that a
job whose expression no longer parses does not stay due for ever is for the code to
see to), that a handler that has started sends its second statement, and that a claim transaction
that is retried again and again is not lost every time (strong fairness of
`ClaimCommit`, as a database that fails every commit makes no progress at all).
`RetryChain` assumes time, the timer and the worker's own steps, and nothing of
the target. `Deployment` assumes that a runner goes on while it runs; strongly,
since PostgreSQL queues lock requests, so a runner is not overtaken for ever by
others that take the lock it waits for. `Frontend` assumes that the page's timer
fires and that loads and handlers end, by an answer or a failure. Nothing is
assumed of crashes, of faults, of clients and users, or of which worker wins.
TLC checks for deadlock in every run except the two of `RetryChain`, which stop
when the run is over.

## 4. Findings

Findings 1 to 5 are runs; finding 6 is one statement that PostgreSQL always rejects,
whatever runs beside it, and has none.

1. **A timeout longer than the stale threshold overlaps calls.** `timeoutMs` may
   be 120 s (`routes/jobRoutes.ts:19`), a lock is stale after 90 s and nothing
   refreshes it, although `retryPolicy.ts:47-48` speaks of a heartbeat. The reaper
   fails an execution whose call is open and its retry is called beside it.
2. **A retry can vanish.** FAILED and the `INSERT` of the retry are two
   statements. A Run Now between them takes the single-inflight slot, the
   `INSERT` raises 23505, `tick` logs it, and nobody tries again. A crash there
   has the same effect.
3. **The reaper can be stuck.** It retries with the job's present setting. If
   concurrent runs were switched off while two executions ran and both were
   lost, the second retry violates the index, the transaction rolls back, and
   `tick` ends before claiming: on every poll of every worker.
4. **A deduplicated Run Now is answered with the wrong execution.** The handler
   looks up the newest execution in flight, not the one with the key, and
   answers null when there is none.
5. **A timeout in the body is no timeout.** The timer runs until the body has
   been read, but its abort there is swallowed (`httpExecutor.ts:38`): the body is
   stored as empty and a 2xx status makes the call a success, where
   `ENGINEERING.md:947` promises a failed execution and a retry.
6. **Cancel never succeeds.** `routes/executionRoutes.ts:74-76` sends `UPDATE
   executions e SET ..., version = version + 1 FROM jobs j`. Both tables have a column
   `version` (`migrations/001_init.sql:48`, `:93`), so PostgreSQL rejects the statement
   (42702, ambiguous column) and the answer is 500, although `API.md:92-95` promises 200
   or 409; `worker.ts:190-191` warns of this very pitfall. `Api` therefore has no
   action for it, `ExecStatus` has no CANCELLED, and in the frontend
   `handleCancel` (`frontend/src/app/dashboard/jobs/[id]/page.tsx:88`) always ends in
   its `catch`.

Seen while modelling, without a run of their own: the owner of an execution the
reaper has failed may later record SUCCEEDED over FAILED, since it tests only
`locked_by`, while the retry runs too (the theorems allow exactly this move and
no other out of FAILED); the jitter is added after the cap, so a delay may exceed
the "never wait more than 5 minutes" of `retryPolicy.ts:34` by a fifth; a resume
writes the next run of the cron expression it read, so a PUT of that expression
in between leaves the old schedule's slot, or, when the job had no expression
before, an ACTIVE job with a cron expression and no next run, which the scheduler
never looks at again (`NextRunKept` shows that no other request can do this);
`ENGINEERING.md:845` speaks of polling "execution/job data" every four seconds,
but the dashboard's list has no timer, and the answer to an earlier search may
come after that to the present one and stay (`Converges` is therefore stated for
the job page).

## 5. What is proved

Every theorem holds for all values of the constants that satisfy the modules'
`ASSUME`s: any number of jobs, workers, clients and rows, any thresholds, delays
and limits, any faults; any number of runners, files and browsers.

| Module | Theorem | States |
|---|---|---|
| `PlatformProofs` | `TypeCorrect` | `Spec => []TypeOK` |
| | `ClaimExclusive` | `Spec => []ClaimIsExclusive` |
| | `SettledFinal` | `Spec => SettledIsFinal` |
| `ExclusionProofs` | `IndexesHold` | `Spec => [](SingleIndex(execs) /\ KeyIndex(execs))` |
| | `CallsExclusive` | if `CallLimit <= StaleAfter`: `Spec => []OneCallPerSingleJob` |
| | `NoEarlyReap` | if `CallLimit <= StaleAfter`: `Spec => NoReapDuringCall` |
| | `RetriesOnce` | `Spec => []RetriedOnce` |
| `RefinementProofs` | `LedgerKept` | `Spec => KeepsLedger` |
| `RequestProofs` | `SlotsOnce` | `Spec => []SlotRunsOnce` |
| | `CreatorUnique` | `Spec => []OneCreatorPerKey` |
| | `UpdatesKept` | `Spec => NoLostUpdate` |
| | `SlotsKept` | `Spec => NoSlotLost` |
| | `NextRunStays` | `Spec => NextRunKept` |
| `RetryProofs` | `FailuresRetried` | if `Undisturbed`: `Spec => []FailureIsRetried` |
| | `ReaperNeverStuck` | if `NeverForbidden`: `Spec => []ReaperProceeds` |
| `ChainProofs` | `RetriesExact` | `Spec => []ExactlyMaxRetries` |
| | `ReasonGiven` | `Spec => []FailureHasReason` |
| | `DelaysGrow` | `Spec => BackoffGrows` |
| `DeploymentProofs` | `DeploymentTyped` | `Spec => []TypeOK` |
| | `LedgerTrue` | `Spec => []SchemaMatchesLedger` |
| | `TablesThere` | `Spec => []RequestsMeetTables` |
| | `OneGoesOn` | `Spec => []NotAllFail` |
| | `AddressUnique` | `Spec => []OneAccountPerEmail` |
| | `SessionStays` | `Spec => []SessionKept` |
| | `DirectoryKept` | `Spec => KeepsDirectory` |
| `FrontendProofs` | `FrontendTyped` | `Spec => []TypeOK` |
| | `WritesShown` | `Spec => ReadYourWrites` |

**`PlatformProofs`.** The invariant `IInv` is `TypeOK /\ ClaimIsExclusive /\
RetryKnown`. The types need the claims: `Stamp` overwrites the status of the
locked rows without testing it, and only because those rows are still PENDING
does the table keep its shape. The claims need the types. `RetryKnown` (a pending
manual retry is about an existing row) is needed because the row it inserts
copies the job of that row. Each action has its own case, grouped by actor;
`RowSteps`, proved alongside, says which moves a row's status may make in one
step and yields `SettledFinal`.

**`ExclusionProofs`.** `XInv` adds four parts. `Indexed`: both indexes and
`Lineage` (a row with a retry key is the next attempt of a row that has ended).
`Blank`: a row never inserted has no key. `RetryPhase`: a worker about to insert
a retry has a FAILED row within the limit. `CallsLive`: while a call is open its
row is RUNNING and exactly as old as the call, provided that no claim and call
outlast the threshold. Every step of the platform inserts an accepted row
(`Inserts`), reaps (`Reaps`) or is `Steady`, and each kind keeps the indexes.
`CallsExclusive` then follows: two open calls mean two RUNNING rows, the index
makes them one row, and the claim makes its owner one worker. Without
`CallLimit <= StaleAfter` it is false, which is finding 1.

**`RefinementProofs`.** `XInv` implies the ledger's `Promise` under the mapping
(the index is the single place, `Lineage` and the key index are the retry). A
step then maps to a step of the ledger because the rows that exist keep their
origin and owner (`RowsKeepOrigin`), their status moves as `RowSteps` says, and
only the `UPDATE` of one worker's claim takes runs (`TakenTogether`).

**`RequestProofs`.** `SlotsOnce`: a schedule key is its slot and nothing else
(`SlotKeys`), so two rows for one slot would have one key, which the index
forbids. `CreatorUnique`: behind each answer "created" there is a row with the
answer's key, inserted for that client alone (`Creations`); it survives
because keys and jobs of rows never change. `UpdatesKept`: while the version of
a job is the one a PUT has read, the job's settings are those it has read
(`PutKnown`); every write of another request raises the version, and the
scheduler, which does not, writes no setting (`JobsLater`).

In the same module: `Written` lists all that one step can do to a job; every
request that writes one raises its version, so a next run that changes under one
version was advanced by the scheduler. `NoSlotBetween` (arithmetic of `\div` and
`%`) says that it passed one slot only, and `AdvanceHandles` that this slot has its
row or a row in its way. For `NextRunStays`, `PutKnown` also says that what a PUT
holds lacks a next run only if the job does.

**`RetryProofs`.** `FailuresRetried` is false in general (finding 2), so it states
what it takes: `Undisturbed` says that no statement after a call is lost, nobody
creates a job or sends a PUT, and a job that forbids concurrent runs has no
schedule and gets no Run Now or manual retry, so that nothing but retries can take the
place a retry needs. Workers may crash, claims may be lost, reapers and late
owners may meet, and a job that allows concurrent runs may have any traffic; the
instance of `recovery` without its PUT is one of these. `RInv` adds three parts.
`Quiet`: no insert of another kind is under way. `Working`: a worker's loop is where its
tasks are, and a task holds its job's settings, so the worker and a reaper decide
alike. `Chain`: the executions of a job that forbids concurrency form one chain,
of which only the last has no retry; hence the retry's insert is accepted, or its
key is there already.

`ReaperNeverStuck` is the other side of finding 3: `NeverForbidden` only says that no
PUT body switches concurrent runs off and that the first rows were made under
their job's setting. `Heeded` is its invariant: what is in flight for a job that
forbids concurrent runs enforces that, and so will everything a request, a PUT or
a worker still holds, although each of them read the setting some time ago.
Every retry then takes the place of the stale row it repeats (`ReapFits`).

**`ChainProofs`.** `ChainInv` relates a call's stage to its status (`CallShape`),
bounds the attempt (`Counted`) and says that a run that is over makes no other
call (`Stops`); with these, every answer belongs to the call that gave it.
`DelaysGrow` needs `PowerOfTwo[n + 1] = 2 * PowerOfTwo[n]` (`Powers`). The function
is recursive, and that it exists is shown from approximations on `0..n`, which
double at every step, are unique and exist for every `n` (`DoublesAgree`,
`DoublesExist`). The induction is over the set of those `n`: were it not all of
`Nat`, it would have a least counterexample (`NatSet`, from the library's
well-foundedness of `<`). The jitter is less than what doubling adds, and under
the cap both delays are the cap's (`CappedDoubles`, `JitterSmall`); the invariant
`Waited` ties the last delay to the attempt it followed.

**`DeploymentProofs`.** `MInv`: the ledger is an initial part of the files and
equals the schema, a runner is behind or at the first file missing (`Behind`),
and some runner is `Fresh`: what it has last read is still true, or it is about
to read again. The last part is what had to be invented: a runner that makes the
others stale, by creating the table or committing a file, looks again next, so it
is fresh itself, and a fresh runner's next step does not fail. `AInv`: addresses
are unique, and an answer, a session or a comparison in progress is backed by the
row it came from (`Backed`); rows are never changed. `ServesReady`: while the API
runs, the tables are there. For `DirectoryKept` each handler step maps to a step
of `Directory` or to none: a registration that goes on to hash, or a sign-in that
goes on to compare, is no step; and a comparison may rely on the password it read
because `Backed` says that the row is still there, the only one of its address.

**`FrontendProofs`.** `FInv`: a load begun by a handler finds it waiting, has read
nothing older than its write (`AfterWrite`), and is its only one (`OneLoad`), so a
load that ends never sets free a handler whose own load is still under way.

**Only model-checked.** Liveness and `ENABLED` are out of the prover's reach:
`StaleIsRecovered`, `DueIsTaken`, `SlotIsHandled`, `CallsEnd`, `ChainEnds`,
`RunnersEnd`, `Converges`, `SpinnerEnds`. The properties of the runs that expect a
violation are false of the code; three of them hold under conditions that the
theorems `CallsExclusive`, `FailuresRetried` and `ReaperNeverStuck` (for the safety
half of `StaleIsRecovered`) name.

## 6. Not modelled

- Deadlocks between database transactions: PostgreSQL aborts one of them, and
  both callers poll again; transactions that cannot be observed in the middle are
  single actions here, so the model cannot show them.
- `owner_id` in the `WHERE` clauses: one user's view of the tables is modelled,
  and users do not share rows.
- Routing, CORS, the body size limit, health checks; keep-alive connections,
  which may delay the end of a shutdown. That `server.close()` calls back only when
  the open requests are answered is Node's contract and taken as given (`Exit`).
- Request validation, formatting, logging; layout, toasts, and the fields of
  forms; the busy flag of a single button in the job list (`runningId`).
- A second browser tab that shares the token.
- The end-to-end path from a browser's button to a worker: `Frontend` sees the
  tables as a revision counter, `Platform` sees clients as requests. Joining them
  would multiply the state spaces without a property that needs both.

## 7. Plan

*Done:* store, worker, retry policy, API, scheduler and their composition; the
abstract ledger and its refinement; HTTP executor and retry chain; migrations,
accounts and deployment, with the abstract directory of accounts and its
refinement; one browser tab; a theorem for each safety property of a passing run,
twenty-seven in all.

*Left:* the abstract schedule that emits each slot once, as a further refinement of
`Platform` (its two halves, `NoSlotLost` and `SlotRunsOnce`, are proved); a second
tab that shares the token; a run for the job list that is not polled.
