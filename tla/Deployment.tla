----------------------------- MODULE Deployment -----------------------------
(***************************************************************************)
(* From an empty database to an API that serves: the migration runners,    *)
(* then the API process that docker-compose.yml starts when a runner has   *)
(* exited with 0, the sign-in requests it handles, and its shutdown        *)
(* (backend/src/index.ts).                                                 *)
(***************************************************************************)
EXTENDS Migrations, Accounts

VARIABLE api    \* the API process: not running, or "up", or "closing"

vars == <<migrations, accounts, api>>

Init ==
    /\ MigrationsInit /\ AccountsInit
    /\ api = "exited"

Serving == api \in {"up", "closing"}

(* Mutant: the API starts as soon as a runner has been started. *)
MayServe_Started == \E r \in Runner : ~At(r, "off")

(* depends_on: migrate: service_completed_successfully *)
MayServe == \E r \in Runner : At(r, "done")

StartApi ==
    /\ ~Serving /\ MayServe
    /\ api' = "up"
    /\ UNCHANGED <<migrations, accounts>>

Accept(c) ==
    /\ api = "up"
    /\ Submit(c)
    /\ UNCHANGED <<migrations, api>>

Handle(c) ==
    /\ HandlerStep(c)
    /\ UNCHANGED <<migrations, api>>

(* SIGTERM: server.close() accepts nothing more ... *)
Terminate ==
    /\ api = "up"
    /\ api' = "closing"
    /\ UNCHANGED <<migrations, accounts>>

(* When a process ends, the forms it has not answered see a network error; *)
(* what their requests have written stays.                                 *)
Hangup ==
    form' = [c \in Client |-> IF Idle(c) THEN form[c] ELSE Reply(c, "lost")]

(* ... and calls back when the last open request is answered: taken as    *)
(* Node's contract.                                                        *)
Exit ==
    /\ api = "closing"
    /\ \A c \in Client : Idle(c)
    /\ api' = "exited"
    /\ UNCHANGED <<migrations, accounts>>

Kill ==
    /\ Serving
    /\ api' = "killed"
    /\ Hangup
    /\ UNCHANGED <<migrations, users, session>>

Next ==
    \/ \E r \in Runner : (StartRunner(r) \/ RunnerStep(r) \/ BreakStep(r))
                             /\ UNCHANGED <<accounts, api>>
    \/ \E c \in Client : Accept(c) \/ Handle(c)
    \/ StartApi \/ Terminate \/ Exit \/ Kill

Spec == Init /\ [][Next]_vars

(* A runner goes on while it runs; one that waits for a lock gets its turn *)
(* although others keep taking it (PostgreSQL queues lock requests), hence *)
(* the strong fairness.  Nobody has to start or to stop a process.         *)
Fairness ==
    \A r \in Runner : SF_vars(RunnerStep(r) /\ UNCHANGED <<accounts, api>>)

FairSpec == Spec /\ Fairness

-----------------------------------------------------------------------------
(* The sign-in requests read as those of Directory: registering is one     *)
(* step there, and every answer is true when it is given, however the      *)
(* awaits of the handlers interleave and wherever the process dies         *)
(* (authRoutes.ts:15-47).                                                  *)
Request(f) ==
    CASE f.at = "hashing" -> [at |-> "register", cred |-> f.cred]
      [] f.at = "comparing" -> [at |-> "login", cred |-> f.cred]
      [] f.at \in Claims -> [at |-> f.at]
      [] OTHER -> f
request == [c \in Client |-> Request(form[c])]
Accounting == INSTANCE Directory
KeepsDirectory == Accounting!Spec

-----------------------------------------------------------------------------
TypeOK ==
    /\ ledgerTable \in BOOLEAN /\ applied \subseteq File /\ schema \subseteq File
    /\ runner \in [Runner -> RunnerState]
    /\ users \subseteq Row
    /\ form \in [Client -> Form]
    /\ session \in [Client -> Cred \cup {None}]
    /\ api \in {"exited", "killed", "up", "closing"}

(* Whatever runners race, break or run again, the ledger lists the files   *)
(* whose objects exist, and these are the first ones: a broken run leaves  *)
(* no half of a file, and none is skipped (migrate.ts:18-37).              *)
SchemaMatchesLedger ==
    /\ schema = applied
    /\ \A f \in applied : 1..f \subseteq applied

(* A request that is being handled never meets a database without its      *)
(* tables (docker-compose.yml, api: depends_on; migrate.ts:39, 48).        *)
RequestsMeetTables ==
    (\E c \in Client : ~Idle(c)) => schema = File

(* Runners that race may fail, but not all of them: one that loses a race  *)
(* loses it to a runner that goes on (migrate.ts:8-13, 29-37).             *)
NotAllFail == Runner # {} => \E r \in Runner : ~At(r, "failed")

(* An address belongs to one account, and whoever was told that it is      *)
(* theirs has the account (authRoutes.ts:18-26, 001_init.sql:14).          *)
OneAccountPerEmail ==
    /\ \A u, v \in users : u.email = v.email => u = v
    /\ \A c \in Client :
          form[c].at = "created" =>
              \E u \in users : /\ u.by = c /\ u.email = form[c].cred.email
                               /\ u.password = form[c].cred.password

(* Credentials that got a browser its session are never refused to it:     *)
(* nobody takes an account over or loses it (authRoutes.ts:33-47).         *)
SessionKept ==
    \A c \in Client :
        form[c].at = "denied" => form[c].cred # session[c]

(* A runner that has started ends: none waits for ever for the objects of  *)
(* another (migrate.ts:29-44).                                             *)
RunnersEnd ==
    \A r \in Runner : At(r, "create") ~> runner[r].at \in Ends
=============================================================================
