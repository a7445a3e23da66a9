-------------------------- MODULE RefinementProofs --------------------------
(* The platform keeps the promise of RunLedger. *)
EXTENDS ExclusionProofs

(***************************************************************************)
(* The mapping                                                             *)
(***************************************************************************)
LEMMA EntryFields ==
    ASSUME NEW e \in ExecId
    PROVE  /\ ledger[e] = Entry(execs[e])
           /\ ledger[e].status = execs[e].status
           /\ ledger[e].job = execs[e].job
           /\ ledger[e].single = execs[e].single
           /\ ledger[e].owner = execs[e].lockedBy
           /\ ledger[e].retryOf =
                 IF execs[e].key.kind = "retry" THEN execs[e].parent ELSE None
BY DEF ledger, Entry

LEMMA PromiseHolds == XInv => Ledger!Promise
<1> SUFFICES ASSUME XInv
             PROVE  Ledger!Promise
  OBVIOUS
<1>1. ASSUME NEW e \in ExecId
      PROVE  Entry(execs[e]) \in Ledger!Entry
  <2>1. execs[e] \in ExecRow
    BY DEF XInv, IInv, TypeOK
  <2> QED
    BY <2>1 DEF Entry, ExecRow, ExecStatus, Ledger!Entry, Ledger!Status,
                Ledger!Ended
<1>2. ledger \in [ExecId -> Ledger!Entry]
  BY <1>1 DEF ledger
<1>3. Ledger!SinglePlace
  BY EntryFields DEF XInv, Indexed, SingleIndex, InFlight,
                     Ledger!SinglePlace, Ledger!Active
<1>4. ASSUME NEW r \in ExecId, NEW s \in ExecId, ledger[r].retryOf # None
      PROVE  /\ ledger[ledger[r].retryOf].status \in Ledger!Ended
             /\ ledger[ledger[r].retryOf].job = ledger[r].job
             /\ ledger[s].retryOf = ledger[r].retryOf => r = s
  <2>1. /\ execs[r].key.kind = "retry"
        /\ ledger[r].retryOf = execs[r].parent
    BY <1>4, EntryFields
  <2>2. RetryOf(execs, execs[r])
    BY <2>1 DEF XInv, Indexed, Lineage
  <2>3. ASSUME ledger[s].retryOf = ledger[r].retryOf
        PROVE  r = s
    <3>1. /\ execs[s].key.kind = "retry"
          /\ execs[s].parent = execs[r].parent
      BY <1>4, <2>1, <2>3, EntryFields
    <3>2. RetryOf(execs, execs[s])
      BY <3>1 DEF XInv, Indexed, Lineage
    <3>3. execs[r].job = execs[s].job /\ execs[r].key = execs[s].key
      BY <2>2, <3>1, <3>2 DEF RetryOf
    <3>4. Present(execs, r) /\ Present(execs, s)
      BY <2>1, <3>1 DEF XInv, Blank, NoKey
    <3> QED
      BY <3>3, <3>4 DEF XInv, Indexed, KeyIndex
  <2> QED
    BY <2>1, <2>2, <2>3, EntryFields DEF RetryOf, Ledger!Ended
<1> QED
  BY <1>2, <1>3, <1>4 DEF Ledger!Promise, Ledger!RetryOfEnded

LEMMA InitLedger == Init => Ledger!Init
<1> SUFFICES ASSUME Init
             PROVE  Ledger!Init
  OBVIOUS
<1>1. Ledger!Promise
  BY InitXInv, PromiseHolds
<1>2. ASSUME NEW e \in ExecId
      PROVE  /\ execs[e].status \in {"ABSENT", "PENDING"}
             /\ execs[e].lockedBy = None /\ execs[e].key.kind # "retry"
  <2>1. CASE execs[e] = NoRow
    BY <2>1 DEF NoRow, NoKey
  <2>2. CASE /\ execs[e].status = "PENDING" /\ execs[e].lockedBy = None
             /\ execs[e].key.kind \in {"client", "manual", "schedule"}
    BY <2>2
  <2> QED
    BY <2>1, <2>2, InitAssumption DEF Init
<1> QED
  BY <1>1, <1>2, EntryFields DEF Ledger!Init

(***************************************************************************)
(* The steps                                                               *)
(***************************************************************************)
(* Unless it is inserted by the step, a row keeps what it was queued with. *)
LEMMA RowsKeepOrigin ==
    ASSUME XInv, [Next]_vars, NEW e \in ExecId,
           Present(execs, e) \/ ~Present(execs', e)
    PROVE  SameOrigin(execs[e], execs'[e])
<1>1. CASE Inserts
  BY <1>1 DEF Inserts, Insert, SameOrigin, Present, XInv, IInv, TypeOK
<1>2. CASE Reaps
  <2>1. PICK parent \in Parents : \E wait \in [DOMAIN parent -> Delay] :
           execs' = ReapedTable(parent, wait)
    BY <1>2 DEF Reaps
  <2> QED
    BY <2>1, ReapRows DEF ReapedAs, XInv, IInv, Present
<1>3. CASE Steady
  BY <1>3 DEF Steady
<1> QED
  BY <1>1, <1>2, <1>3, TableStep DEF XInv, InProgress

Takes(e) == execs[e].status = "PENDING" /\ execs'[e].status = "RUNNING"

(* Rows are taken by the second statement of a claim only. *)
LEMMA NotTaken ==
    ASSUME IInv, UNCHANGED execs \/ Inserts \/ Reaps, NEW e \in ExecId
    PROVE  ~Takes(e)
<1>1. CASE Inserts
  BY <1>1 DEF Inserts, Insert, Takes, IInv, TypeOK
<1>2. CASE Reaps
  <2>1. PICK parent \in Parents : \E wait \in [DOMAIN parent -> Delay] :
           execs' = ReapedTable(parent, wait)
    BY <1>2 DEF Reaps
  <2> QED
    BY <2>1, ReapSteps DEF IInv, Takes, Present
<1> QED
  BY <1>1, <1>2 DEF Takes

LEMMA WorkerTakes ==
    ASSUME IInv, RetryPhase, NEW w \in Worker, WorkerStep(w)
    PROVE  \A e \in ExecId : Takes(e) => execs'[e].lockedBy = w
<1> USE DEF IInv, store
<1>1. ASSUME Stamp(w)
      PROVE  \A e \in ExecId : Takes(e) => execs'[e].lockedBy = w
  BY <1>1, StampSteps DEF Takes
<1>2. ASSUME LoopStep(w)
      PROVE  Stamp(w) \/ Reaps \/ UNCHANGED execs
  BY <1>2 DEF LoopStep, Start, Reap, ReapRolledBack, ClaimSelect, ClaimCommit,
              TickEnds, Reaps
<1>3. ASSUME FaultStep(w)
      PROVE  Stamp(w) \/ UNCHANGED execs
  BY <1>3 DEF FaultStep, Crash, ClaimFails, ClaimAckLost, QueryFails
<1>4. ASSUME NEW f \in ExecId, TaskStep(w, f)
      PROVE  \A e \in ExecId : ~Takes(e)
  <2>1. CASE RecordSuccess(w, f)
    BY <2>1, RecordSteps DEF RecordSuccess, In, Takes
  <2>2. CASE RecordFailure(w, f)
    BY <2>2, RecordSteps DEF RecordFailure, In, Takes
  <2>3. CASE ScheduleRetry(w, f)
    BY <2>3, RetryInserts, NotTaken
  <2> QED
    BY <1>4, <2>1, <2>2, <2>3, NotTaken DEF TaskStep, CallEnds
<1> QED
  BY <1>1, <1>2, <1>3, <1>4, NotTaken DEF WorkerStep

LEMMA TakenTogether ==
    ASSUME XInv, [Next]_vars, NEW e \in ExecId, NEW f \in ExecId,
           Takes(e), Takes(f)
    PROVE  execs'[e].lockedBy = execs'[f].lockedBy
<1>1. ~(UNCHANGED execs \/ Inserts)
  BY NotTaken DEF XInv
<1>2. ASSUME NEW w \in Worker, WorkerStep(w)
      PROVE  execs'[e].lockedBy = execs'[f].lockedBy
  BY <1>2, WorkerTakes DEF XInv, InProgress
<1>3. ~Tick
  BY TickSteps DEF XInv, IInv, Takes
<1> QED
  BY <1>1, <1>2, <1>3, SchedulerInserts, ApiInserts
  DEF Next, vars, store, XInv, IInv

LEMMA LedgerStep ==
    ASSUME XInv, XInv', [Next]_vars, Ledger!Promise'
    PROVE  Ledger!Next
<1>1. RowSteps /\ TypeOK /\ TypeOK'
  BY NextIInv DEF XInv, IInv
<1>2. ASSUME NEW e \in ExecId
      PROVE  /\ ledger'[e] = Entry(execs'[e])
             /\ ledger'[e].status = execs'[e].status
             /\ ledger'[e].job = execs'[e].job
             /\ ledger'[e].single = execs'[e].single
             /\ ledger'[e].owner = execs'[e].lockedBy
             /\ ledger'[e].retryOf =
                   IF execs'[e].key.kind = "retry" THEN execs'[e].parent
                   ELSE None
  BY DEF ledger, Entry
<1>3. ASSUME NEW e \in ExecId
      PROVE  /\ execs'[e].lockedBy = None
                   <=> execs'[e].status \in {"ABSENT", "PENDING"}
             /\ execs[e].lockedBy = None
                   <=> execs[e].status \in {"ABSENT", "PENDING"}
  BY <1>1 DEF TypeOK
<1>4. ASSUME NEW e \in ExecId, Present(execs, e)
      PROVE  Ledger!KeepsOrigin(e)
  BY <1>2, <1>4, EntryFields, RowsKeepOrigin DEF SameOrigin, Ledger!KeepsOrigin
<1>5. ASSUME NEW e \in ExecId
      PROVE  \/ Ledger!Stays(e) \/ Ledger!Queued(e) \/ Ledger!Taken(e)
             \/ Ledger!Closed(e)
  <2>1. CASE /\ execs'[e].status = execs[e].status
             /\ execs'[e].lockedBy = execs[e].lockedBy
    <3>1. SameOrigin(execs[e], execs'[e])
      BY <2>1, RowsKeepOrigin DEF Present
    <3>2. Entry(execs'[e]) = Entry(execs[e])
      BY <2>1, <3>1 DEF SameOrigin, Entry
    <3>3. ledger'[e] = Entry(execs'[e]) /\ ledger[e] = Entry(execs[e])
      BY <1>2 DEF ledger
    <3> QED
      BY <3>2, <3>3 DEF Ledger!Stays
  <2>2. CASE execs[e].status = "ABSENT" /\ execs'[e].status = "PENDING"
    BY <1>2, <1>3, <2>2, EntryFields DEF Ledger!Queued, Ledger!Becomes
  <2>3. CASE execs[e].status = "PENDING" /\ execs'[e].status = "RUNNING"
    BY <1>2, <1>3, <1>4, <2>3, EntryFields
    DEF Ledger!Taken, Ledger!Becomes, Present
  <2>4. CASE /\ execs[e].status \in {"RUNNING", "FAILED"}
             /\ execs'[e].status \in {"FAILED", "SUCCEEDED"}
             /\ execs'[e].status # execs[e].status
             /\ execs'[e].lockedBy = execs[e].lockedBy
    BY <1>2, <1>4, <2>4, EntryFields
    DEF Ledger!Closed, Ledger!Becomes, Ledger!Ended, Ledger!KeepsOwner, Present
  <2> QED
    BY <1>1, <2>1, <2>2, <2>3, <2>4 DEF RowSteps, RowStep, Present
<1>6. ASSUME NEW e \in ExecId, NEW f \in ExecId,
             Ledger!Taken(e), Ledger!Taken(f)
      PROVE  ledger'[e].owner = ledger'[f].owner
  <2>1. Takes(e) /\ Takes(f)
    BY <1>2, <1>6, EntryFields DEF Ledger!Taken, Ledger!Becomes, Takes
  <2> QED
    BY <1>2, <2>1, TakenTogether
<1> QED
  BY <1>5, <1>6 DEF Ledger!Next

(* Every behaviour of the platform, read through its executions table, is  *)
(* a behaviour of the ledger: runs move only along their life cycle, keep  *)
(* what they were queued with and their owner, share no single place, and  *)
(* are retried once (worker.ts:37-259, jobRoutes.ts:166-209,               *)
(* executionRoutes.ts:46-99).                                              *)
THEOREM LedgerKept == Spec => KeepsLedger
<1>1. XInv' => Ledger!Promise'
  BY PromiseHolds, PTL
<1>2. XInv /\ XInv' /\ [Next]_vars => [Ledger!Next]_ledger
  BY <1>1, LedgerStep
<1> QED
  BY InitLedger, XInvariance, <1>2, PTL DEF Spec, KeepsLedger, Ledger!Spec
=============================================================================
