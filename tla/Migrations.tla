----------------------------- MODULE Migrations -----------------------------
(***************************************************************************)
(* backend/src/migrate.ts against PostgreSQL.  Several runners may be at   *)
(* work at once (two deployments, or a container and an operator); nothing *)
(* but the database keeps them apart.  A migration file is a number, its   *)
(* place in the sorted directory; its statements create objects without IF *)
(* NOT EXISTS (001_init.sql:10-101), so they fail when the objects exist   *)
(* and wait while another transaction has created them and not yet ended.  *)
(***************************************************************************)
EXTENDS Integers

CONSTANTS
    Runner,     \* processes running migrate.ts
    Files,      \* how many migration files there are
    MayBreak    \* those that may die or lose their connection, and that
                \* are run again; the others run once

ASSUME MigrationsAssumption == Files \in Nat \ {0} /\ MayBreak \subseteq Runner

VARIABLES
    ledgerTable,   \* schema_migrations exists
    applied,       \* the files it lists
    schema,        \* the files whose objects exist
    runner         \* where each runner is, and at which file

migrations == <<ledgerTable, applied, schema, runner>>

File == 1..Files
Ends == {"done", "failed", "broken"}
RunnerState ==
    [at: {"off", "create", "creating", "check", "sql", "insert", "commit"}
            \cup Ends,
     file: 1..(Files + 1)]

MigrationsInit ==
    /\ ledgerTable = FALSE /\ applied = {} /\ schema = {}
    /\ runner = [r \in Runner |-> [at |-> "off", file |-> 1]]

At(r, label) == runner[r].at = label

(* A process that has failed or died takes its place in the loop with it. *)
PlaceOf(r, label) == IF label \in {"failed", "broken"} THEN 1 ELSE runner[r].file
Goto(r, label) ==
    runner' = [runner EXCEPT ![r] = [at |-> label, file |-> PlaceOf(r, label)]]

(* Mutant: a transaction locks what it needs when it begins, and shares it. *)
Holds_FromBegin(r, f) ==
    runner[r].at \in {"sql", "insert", "commit"} /\ runner[r].file = f

(* The objects a runner's open transaction has created. *)
Holds(r, f) == runner[r].at \in {"insert", "commit"} /\ runner[r].file = f

-----------------------------------------------------------------------------
StartRunner(r) ==
    /\ At(r, "off") \/ (r \in MayBreak /\ runner[r].at \in Ends)
    /\ runner' = [runner EXCEPT ![r] = [at |-> "create", file |-> 1]]
    /\ UNCHANGED <<ledgerTable, applied, schema>>

(* CREATE TABLE IF NOT EXISTS looks for the table first, ... *)
CreateLooks(r) ==
    /\ At(r, "create")
    /\ Goto(r, IF ledgerTable THEN "check" ELSE "creating")
    /\ UNCHANGED <<ledgerTable, applied, schema>>

(* ... and fails on a catalog index when another session has created it    *)
(* since: IF NOT EXISTS is no protection against a concurrent CREATE.      *)
CreateEnds(r) ==
    /\ At(r, "creating")
    /\ Goto(r, IF ledgerTable THEN "failed" ELSE "check")
    /\ ledgerTable' = TRUE
    /\ UNCHANGED <<applied, schema>>

(* Mutant: files listed as applied are run again. *)
IsApplied_Never(f) == FALSE

(* The SELECT of the loop: skip the file, or begin its transaction; after  *)
(* the last file the process exits with 0.                                 *)
IsApplied(f) == f \in applied
CheckFile(r) ==
    LET n == runner[r].file
    IN  /\ At(r, "check")
        /\ \/ n > Files /\ Goto(r, "done")
           \/ /\ n <= Files /\ IsApplied(n)
              /\ runner' = [runner EXCEPT ![r].file = @ + 1]
           \/ n <= Files /\ ~IsApplied(n) /\ Goto(r, "sql")
        /\ UNCHANGED <<ledgerTable, applied, schema>>

(* The file's statements: they wait for a transaction that has created the *)
(* same objects, and fail when these exist (ROLLBACK, exit 1).             *)
RunSql(r) ==
    LET f == runner[r].file
    IN  /\ At(r, "sql")
        /\ \A s \in Runner \ {r} : ~Holds(s, f)
        /\ Goto(r, IF f \in schema THEN "failed" ELSE "insert")
        /\ UNCHANGED <<ledgerTable, applied, schema>>

InsertApplied(r) ==
    LET f == runner[r].file
    IN  /\ At(r, "insert")
        /\ Goto(r, IF f \in applied THEN "failed" ELSE "commit")
        /\ UNCHANGED <<ledgerTable, applied, schema>>

(* Mutant: the file's statements are committed without its ledger entry. *)
Committed_Unlisted(r) ==
    /\ schema' = schema \cup {runner[r].file}
    /\ UNCHANGED applied

(* Both effects of the transaction become visible at once. *)
Committed(r) ==
    /\ schema' = schema \cup {runner[r].file}
    /\ applied' = applied \cup {runner[r].file}

Commit(r) ==
    /\ At(r, "commit")
    /\ Committed(r)
    /\ runner' = [runner EXCEPT ![r] = [at |-> "check", file |-> @.file + 1]]
    /\ UNCHANGED ledgerTable

(* The process dies or its connection breaks: the server rolls back what   *)
(* was open, ...                                                           *)
Break(r) ==
    /\ r \in MayBreak
    /\ runner[r].at \notin {"off"} \cup Ends
    /\ Goto(r, "broken")
    /\ UNCHANGED <<ledgerTable, applied, schema>>

(* ... or has committed it, and only the answer is lost. *)
BreakCommitted(r) ==
    /\ r \in MayBreak
    /\ At(r, "commit")
    /\ Committed(r)
    /\ Goto(r, "broken")
    /\ UNCHANGED ledgerTable

RunnerStep(r) ==
    \/ CreateLooks(r) \/ CreateEnds(r)
    \/ CheckFile(r) \/ RunSql(r) \/ InsertApplied(r) \/ Commit(r)

BreakStep(r) == Break(r) \/ BreakCommitted(r)
=============================================================================
