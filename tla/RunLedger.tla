----------------------------- MODULE RunLedger -----------------------------
(***************************************************************************)
(* What the platform promises about its runs, whoever acts: a ledger in    *)
(* which every run moves along its life cycle, keeps what it was queued    *)
(* with, is worked on by one owner, shares its job's single place with no  *)
(* other run, and is retried at most once.  No worker, request, lock, age  *)
(* or key appears here.                                                    *)
(***************************************************************************)
CONSTANTS Run, Job, Owner, None

VARIABLE ledger

Ended == {"SUCCEEDED", "FAILED"}
Status == {"ABSENT", "PENDING", "RUNNING"} \cup Ended
Entry == [status: Status, job: Job \cup {None}, single: BOOLEAN,
          owner: Owner \cup {None}, retryOf: Run \cup {None}]

Active(r) == ledger[r].status \in {"PENDING", "RUNNING"}

(* A job that forbids concurrent runs has one of them at a time. *)
SinglePlace ==
    \A r, s \in Run :
        /\ Active(r) /\ ledger[r].single
        /\ Active(s) /\ ledger[s].single
        /\ ledger[r].job = ledger[s].job
        => r = s

(* A retry follows a run of its job that has ended, and is the only one. *)
RetryOfEnded ==
    \A r, s \in Run :
        ledger[r].retryOf # None =>
            /\ ledger[ledger[r].retryOf].status \in Ended
            /\ ledger[ledger[r].retryOf].job = ledger[r].job
            /\ ledger[s].retryOf = ledger[r].retryOf => r = s

Promise == ledger \in [Run -> Entry] /\ SinglePlace /\ RetryOfEnded

Init ==
    /\ Promise
    /\ \A r \in Run : /\ ledger[r].status \in {"ABSENT", "PENDING"}
                      /\ ledger[r].owner = None /\ ledger[r].retryOf = None

Becomes(r, from, to) == ledger[r].status \in from /\ ledger'[r].status \in to
KeepsOrigin(r) ==
    /\ ledger'[r].job = ledger[r].job
    /\ ledger'[r].single = ledger[r].single
    /\ ledger'[r].retryOf = ledger[r].retryOf
KeepsOwner(r) == ledger'[r].owner = ledger[r].owner

Stays(r) == ledger'[r] = ledger[r]
Queued(r) == Becomes(r, {"ABSENT"}, {"PENDING"}) /\ ledger'[r].owner = None
Taken(r) ==
    /\ Becomes(r, {"PENDING"}, {"RUNNING"})
    /\ KeepsOrigin(r) /\ ledger'[r].owner # None
(* A failure may still be corrected by the owner, who alone knows better. *)
Closed(r) ==
    /\ Becomes(r, {"RUNNING"}, Ended) \/ Becomes(r, {"FAILED"}, {"SUCCEEDED"})
    /\ KeepsOrigin(r) /\ KeepsOwner(r)

(* Many runs may move in one step; those taken together have one owner. *)
Next ==
    /\ \A r \in Run :
          Stays(r) \/ Queued(r) \/ Taken(r) \/ Closed(r)
    /\ \A r, s \in Run :
          Taken(r) /\ Taken(s) => ledger'[r].owner = ledger'[s].owner
    /\ Promise'

Spec == Init /\ [][Next]_ledger
=============================================================================
