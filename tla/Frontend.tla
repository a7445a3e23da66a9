------------------------------ MODULE Frontend ------------------------------
(***************************************************************************)
(* One browser tab: the pages of frontend/src/app, their requests through  *)
(* frontend/src/lib/api.ts, and the handlers that answer the reads         *)
(* (jobRoutes.ts, executionRoutes.ts).  Everything the pages show is       *)
(* reduced to the revision of the server's data it was read from; rev      *)
(* counts the changes of that data, by this tab's requests or by anybody.  *)
(*                                                                         *)
(* Requests are answered in any order.  A page's load is a closure over    *)
(* the filter of the render that made it; a load whose page is gone has no *)
(* effect, since React ignores state set on an unmounted component.  A     *)
(* handler goes on when its page is gone, which shows in one case only:    *)
(* that of the new-job page opens the job it has created.                  *)
(***************************************************************************)
EXTENDS Integers

CONSTANTS
    Filter,      \* what the list is searched for, what the history is cut to
    NoFilter,    \* the filter a page starts with
    JobReads,    \* the requests of the job page's load
    Button,      \* handlers that may be at work at once
    MaxLoads,    \* BOUND: loads in progress
    MaxRev,      \* BOUND: changes of the server's data
    MaxFails     \* BOUND: requests that fail with a valid token

ASSUME FrontendAssumption ==
    /\ NoFilter \in Filter /\ JobReads # {} /\ "page" \notin Button
    /\ MaxLoads \in Nat \ {0} /\ MaxRev \in Nat /\ MaxFails \in Nat

VARIABLES
    rev, fails,
    token,      \* local storage: "none", "valid" or "expired"
    page,       \* the mounted page
    filter,     \* its filter
    shown,      \* what it shows
    loading,    \* the dashboard's spinner
    loads,      \* the loads in progress
    acts        \* the handlers at work

vars == <<rev, fails, token, page, filter, shown, loading, loads, acts>>

Slot == 1..MaxLoads
Page == {"login", "list", "new", "job"}
Reads(p) == IF p = "job" THEN JobReads ELSE {"jobs"}
Waiting == -1
Got == UNION {[Reads(p) -> Waiting..MaxRev] : p \in Page}
Shown == [at: {"nothing"}] \cup [at: {"data"}, filter: Filter, got: Got]
Load == [at: {"free"}]
        \cup [at: {"open"}, by: Button \cup {"page"}, filter: Filter, got: Got]
Act == [at: {"idle"}]
       \cup [at: {"posting", "done", "loading"}, filter: Filter,
             since: 0..MaxRev,
             signed: BOOLEAN,   \* its request carries a valid token
             gone: BOOLEAN]     \* it was started by a page left since

Free == [at |-> "free"]
Resting == [at |-> "idle"]
Nothing == [at |-> "nothing"]

(* Mutant: one load() for both pages. *)
Opened_Shared(by, f, p) ==
    [at |-> "open", by |-> by, filter |-> f,
     got |-> [r \in Reads("job") \cup Reads("list") |-> Waiting]]

Opened(by, f, p) ==
    [at |-> "open", by |-> by, filter |-> f, got |-> [r \in Reads(p) |-> Waiting]]

Init ==
    /\ rev = 0 /\ fails = 0
    /\ token = "none" /\ page = "login" /\ filter = NoFilter
    /\ shown = Nothing /\ loading = FALSE
    /\ loads = [l \in Slot |-> Free]
    /\ acts = [b \in Button |-> Resting]

-----------------------------------------------------------------------------
(* A page is left: what becomes of a handler it started. *)
Left(b) ==
    IF acts[b].at \in {"posting", "done"} /\ (page = "new" \/ acts[b].gone)
    THEN [acts[b] EXCEPT !.gone = TRUE]
    ELSE Resting

(* Another page is mounted, with fresh state, and loads if it has a load.  *)
Mount(p) ==
    /\ page' = p
    /\ filter' = NoFilter
    /\ shown' = Nothing
    /\ loading' = (p = "list")
    /\ loads' = [l \in Slot |-> IF l = 1 /\ p \in {"list", "job"}
                               THEN Opened("page", NoFilter, p) ELSE Free]

(* The user leaves the page. *)
Goto(p) == Mount(p) /\ acts' = [b \in Button |-> Left(b)]

SignIn ==
    /\ page = "login"
    /\ token' = "valid"
    /\ Goto("list")
    /\ UNCHANGED <<rev, fails>>

Logout ==
    /\ page \in {"list", "new", "job"}
    /\ token' = "none"
    /\ Goto("login")
    /\ UNCHANGED <<rev, fails>>

(* useRequireAuth lets a page render when there is a token, valid or not. *)
Open(p) ==
    /\ p # page
    /\ p = "login" \/ token # "none"
    /\ Goto(p)
    /\ UNCHANGED <<rev, fails, token>>

(* Seven days have passed (signToken). *)
Expire ==
    /\ token = "valid"
    /\ token' = "expired"
    /\ acts' = [b \in Button |->
                   IF acts[b] = Resting THEN Resting
                   ELSE [acts[b] EXCEPT !.signed = FALSE]]
    /\ UNCHANGED <<rev, fails, page, filter, shown, loading, loads>>

ServerMoves ==
    /\ rev < MaxRev
    /\ rev' = rev + 1
    /\ UNCHANGED <<fails, token, page, filter, shown, loading, loads, acts>>

-----------------------------------------------------------------------------
(* load() is called: setLoading(true) on the dashboard. *)
Start(by, f) ==
    /\ \E l \in Slot :
          /\ loads[l] = Free /\ \A k \in 1..(l - 1) : loads[k] # Free
          /\ loads' = [loads EXCEPT ![l] = Opened(by, f, page)]
    /\ loading' = (page = "list")

(* The effect that depends on load runs when the filter has changed; the   *)
(* loads of the old filter are not cancelled.                              *)
ChangeFilter(f) ==
    /\ page \in {"list", "job"} /\ f # filter
    /\ filter' = f
    /\ UNCHANGED <<rev, fails, token, page, shown, acts>>
    /\ Start("page", f)

(* Mutant: only the dashboard polls. *)
Polls_List == page = "list"

(* setInterval(load, 4000), on the job page only. *)
Polls == page = "job"
Poll ==
    /\ Polls
    /\ UNCHANGED <<rev, fails, token, page, filter, shown, acts>>
    /\ Start("page", filter)

(* Mutant: the browser answers from its cache. *)
Answer_Cached(r) ==
    IF shown.at = "data" /\ r \in DOMAIN shown.got THEN shown.got[r] ELSE rev

(* A GET is answered with what the tables hold when its handler reads. *)
Answer(r) == rev

(* One request of a load: its handler reads the database and answers. *)
Read(l, r) ==
    /\ token = "valid" /\ loads[l].at = "open"
    /\ r \in DOMAIN loads[l].got /\ loads[l].got[r] = Waiting
    /\ loads' = [loads EXCEPT ![l].got[r] = Answer(r)]
    /\ UNCHANGED <<rev, fails, token, page, filter, shown, loading, acts>>

(* A load ends; so does the handler that waits for it. *)
Ended(l) ==
    /\ loads' = [loads EXCEPT ![l] = Free]
    /\ acts' = [b \in Button |->
                   IF loads[l].by = b THEN Resting ELSE acts[b]]

(* All requests of a load are answered: the answers are shown. *)
Finish(l) ==
    /\ loads[l].at = "open"
    /\ \A r \in DOMAIN loads[l].got : loads[l].got[r] # Waiting
    /\ shown' = [at |-> "data", filter |-> loads[l].filter, got |-> loads[l].got]
    /\ loading' = FALSE
    /\ Ended(l)
    /\ UNCHANGED <<rev, fails, token, page, filter>>

(* A request fails: always with a 401 when its token is not valid. *)
Fails(signed) ==
    \/ ~signed /\ UNCHANGED fails
    \/ fails < MaxFails /\ fails' = fails + 1

(* Mutant: setLoading(false) is not in a finally block. *)
AfterFailure_Kept == UNCHANGED loading

AfterFailure == loading' = FALSE
FailLoad(l) ==
    /\ loads[l].at = "open"
    /\ \E r \in DOMAIN loads[l].got : loads[l].got[r] = Waiting
    /\ Fails(token = "valid")
    /\ AfterFailure
    /\ Ended(l)
    /\ UNCHANGED <<rev, token, page, filter, shown>>

-----------------------------------------------------------------------------
(* Handlers: handleRun, handleRetry, handleCancel, handlePauseResume, and  *)
(* handleSubmit of the new-job page, whose button is disabled meanwhile.   *)
(* handleCancel's request is always refused (see Api): it ends in the      *)
(* branch PostFails.                                                       *)
(* The dashboard has its buttons where the spinner is not.                 *)
Click(b) ==
    /\ acts[b] = Resting
    /\ \/ page \in {"list", "job"} /\ shown # Nothing /\ ~loading
       \/ page = "new" /\ \A d \in Button : acts[d] # Resting => acts[d].gone
    /\ acts' = [acts EXCEPT ![b] =
                   [at |-> "posting", filter |-> filter, since |-> 0,
                    signed |-> token = "valid", gone |-> FALSE]]
    /\ UNCHANGED <<rev, fails, token, page, filter, shown, loading, loads>>

(* The request takes effect. *)
Write(b) ==
    /\ acts[b].at = "posting" /\ acts[b].signed /\ rev < MaxRev
    /\ rev' = rev + 1
    /\ acts' = [acts EXCEPT ![b].at = "done", ![b].since = rev']
    /\ UNCHANGED <<fails, token, page, filter, shown, loading, loads>>

(* It is refused, or lost on the way, or only its answer is. *)
PostFails(b) ==
    /\ \/ acts[b].at = "posting" /\ Fails(acts[b].signed)
       \/ acts[b].at = "done" /\ Fails(TRUE)
    /\ acts' = [acts EXCEPT ![b] = Resting]
    /\ UNCHANGED <<rev, token, page, filter, shown, loading, loads>>

(* The answer arrives.  The new-job page's handler moves the tab to the    *)
(* job's page, wherever it is by now (a tab without a token goes on to the *)
(* sign-in page); the other pages load again, with the closure of the      *)
(* click (await load()).                                                   *)
Answered(b) ==
    /\ acts[b].at = "done"
    /\ UNCHANGED <<rev, fails, token>>
    /\ IF page = "new" \/ acts[b].gone
       THEN /\ Mount(IF token = "none" THEN "login" ELSE "job")
            /\ acts' = [d \in Button |-> IF d = b THEN Resting ELSE Left(d)]
       ELSE /\ UNCHANGED <<page, filter, shown>>
            /\ Start(b, acts[b].filter)
            /\ acts' = [acts EXCEPT ![b].at = "loading"]

LoadStep(l) == Finish(l) \/ FailLoad(l) \/ \E r \in Reads(page) : Read(l, r)
ActStep(b) == Write(b) \/ PostFails(b) \/ Answered(b)

Next ==
    \/ SignIn \/ Logout \/ Expire \/ ServerMoves \/ Poll
    \/ \E p \in Page : Open(p)
    \/ \E f \in Filter : ChangeFilter(f)
    \/ \E l \in Slot : LoadStep(l)
    \/ \E b \in Button : Click(b) \/ ActStep(b)

Spec == Init /\ [][Next]_vars

(* Requests end, answers are handled, and the timer fires; nobody has to   *)
(* use the page.                                                           *)
Fairness ==
    /\ WF_vars(Poll)
    /\ \A l \in Slot : WF_vars(LoadStep(l))
    /\ \A b \in Button : WF_vars(ActStep(b))

FairSpec == Spec /\ Fairness

-----------------------------------------------------------------------------
TypeOK ==
    /\ rev \in 0..MaxRev /\ fails \in 0..MaxFails
    /\ token \in {"none", "valid", "expired"} /\ page \in Page
    /\ filter \in Filter /\ shown \in Shown /\ loading \in BOOLEAN
    /\ loads \in [Slot -> Load] /\ acts \in [Button -> Act]

(* However late and in whatever order the answers come, with searches      *)
(* changed and buttons pressed meanwhile, a job page that is left open     *)
(* ends up showing the server's data for the filter it has, and stays so   *)
(* (jobs/[id]/page.tsx:34-60).                                             *)
UpToDate ==
    /\ shown.at = "data" /\ shown.filter = filter
    /\ \A r \in DOMAIN shown.got : shown.got[r] = rev
Converges ==
    \A f \in Filter :
        <>[](page = "job" /\ token = "valid" /\ filter = f) => <>[]UpToDate

(* When a handler that has not failed ends, the page shows the effect of   *)
(* its request (await load() after the await, jobs/[id]/page.tsx:62-108,   *)
(* dashboard/page.tsx:35-57).                                              *)
ReadYourWrites ==
    [][\A l \in Slot :
          Finish(l) /\ loads[l].by \in Button =>
              \A r \in DOMAIN shown'.got : shown'.got[r] >= acts[loads[l].by].since]_vars

(* The dashboard's spinner stops, whether its loads succeed or fail        *)
(* (dashboard/page.tsx:19-29).                                             *)
SpinnerEnds == loading ~> ~loading
=============================================================================
