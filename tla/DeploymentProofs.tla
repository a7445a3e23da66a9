-------------------------- MODULE DeploymentProofs --------------------------
(* The safety of the deployment, for any number of runners, files and      *)
(* browsers.                                                               *)
EXTENDS Deployment, TLAPS

(***************************************************************************)
(* The migration runners                                                   *)
(***************************************************************************)
MigrationTypes ==
    /\ ledgerTable \in BOOLEAN
    /\ applied \subseteq File
    /\ runner \in [Runner -> RunnerState]

(* A runner has seen to all the files before the one it is at. *)
Behind ==
    \A r \in Runner :
        /\ \A n \in 1..(runner[r].file - 1) : n \in applied
        /\ At(r, "done") => runner[r].file = Files + 1
        /\ runner[r].at \in {"sql", "insert", "commit"} => runner[r].file <= Files

(* What a runner has last read is still true, or it is to read it again:   *)
(* the next thing it tries will not fail.                                  *)
Fresh(r) ==
    \/ runner[r].at \in {"off", "create", "check", "done", "broken"}
    \/ At(r, "creating") /\ ~ledgerTable
    \/ runner[r].at \in {"sql", "insert", "commit"} /\ runner[r].file \notin applied

SomeoneFresh == Runner # {} => \E r \in Runner : Fresh(r)

MInv == MigrationTypes /\ SchemaMatchesLedger /\ Behind /\ SomeoneFresh

RunnersNext == \E r \in Runner : StartRunner(r) \/ RunnerStep(r) \/ BreakStep(r)

LEMMA MInit == Init => MInv
<1> SUFFICES ASSUME Init
             PROVE  MInv
  OBVIOUS
<1> DEFINE start == [at |-> "off", file |-> 1]
<1>1. /\ ledgerTable = FALSE /\ applied = {} /\ schema = {}
      /\ runner = [r \in Runner |-> start]
  BY DEF Init, MigrationsInit
<1>2. start \in RunnerState
  BY MigrationsAssumption DEF RunnerState
<1>3. MigrationTypes /\ SchemaMatchesLedger
  BY <1>1, <1>2 DEF MigrationTypes, SchemaMatchesLedger
<1>4. \A r \in Runner : runner[r].at = "off" /\ runner[r].file = 1
  BY <1>1
<1> QED
  BY <1>3, <1>4 DEF MInv, Behind, At, SomeoneFresh, Fresh

(* A step that only moves one runner. *)
LEMMA MoveKeepsBehind ==
    ASSUME MInv, NEW r \in Runner, NEW x \in RunnerState,
           runner' = [runner EXCEPT ![r] = x],
           UNCHANGED <<ledgerTable, applied, schema>>,
           \A n \in 1..(x.file - 1) : n \in applied,
           x.at = "done" => x.file = Files + 1,
           x.at \in {"sql", "insert", "commit"} => x.file <= Files
    PROVE  MigrationTypes' /\ SchemaMatchesLedger' /\ Behind'
<1>1. /\ \A s \in Runner : runner'[s] = IF s = r THEN x ELSE runner[s]
      /\ runner' \in [Runner -> RunnerState]
  BY DEF MInv, MigrationTypes
<1>2. MigrationTypes' /\ SchemaMatchesLedger'
  BY <1>1 DEF MInv, MigrationTypes, SchemaMatchesLedger
<1>3. Behind'
  BY <1>1 DEF MInv, Behind, At
<1> QED
  BY <1>2, <1>3

(* The same, when the runner ends up fresh. *)
LEMMA FreshMove ==
    ASSUME MInv, NEW r \in Runner, NEW x \in RunnerState,
           runner' = [runner EXCEPT ![r] = x],
           UNCHANGED <<ledgerTable, applied, schema>>,
           \A n \in 1..(x.file - 1) : n \in applied,
           x.at = "done" => x.file = Files + 1,
           x.at \in {"sql", "insert", "commit"} => x.file <= Files,
           Fresh(r) => Fresh(r)'
    PROVE  MInv'
<1>1. MigrationTypes' /\ SchemaMatchesLedger' /\ Behind'
  BY MoveKeepsBehind
<1>2. \A s \in Runner : s # r => runner'[s] = runner[s]
  BY DEF MInv, MigrationTypes
<1>3. \A s \in Runner : Fresh(s) => Fresh(s)'
  BY <1>2 DEF Fresh, At
<1> QED
  BY <1>1, <1>3 DEF MInv, SomeoneFresh

(* A step by which a runner's work becomes visible: others may find their  *)
(* knowledge stale, the runner itself does not.                            *)
LEMMA Publish ==
    ASSUME MInv, NEW r \in Runner, NEW x \in RunnerState, NEW f \in File,
           runner[r].file = f,
           runner' = [runner EXCEPT ![r] = x],
           schema' = schema \cup {f}, applied' = applied \cup {f},
           UNCHANGED ledgerTable,
           x.at \in {"check", "broken"}, x.file \in {1, f + 1}
    PROVE  MInv'
<1>1. /\ \A s \in Runner : runner'[s] = IF s = r THEN x ELSE runner[s]
      /\ runner' \in [Runner -> RunnerState]
  BY DEF MInv, MigrationTypes
<1>2. MigrationTypes'
  BY <1>1 DEF MInv, MigrationTypes
<1>3. \A n \in 1..(f - 1) : n \in applied
  BY DEF MInv, Behind
<1>4. f \in Nat /\ applied \subseteq Nat
  BY DEF File, MInv, MigrationTypes
<1>5. SchemaMatchesLedger'
  BY <1>3, <1>4 DEF MInv, SchemaMatchesLedger
<1>6. ASSUME NEW s \in Runner
      PROVE  /\ \A n \in 1..(runner'[s].file - 1) : n \in applied'
             /\ runner'[s].at = "done" => runner'[s].file = Files + 1
             /\ runner'[s].at \in {"sql", "insert", "commit"}
                    => runner'[s].file <= Files
  <2>1. CASE s = r
    BY <2>1, <1>1, <1>3, <1>4
  <2>2. CASE s # r
    BY <2>2, <1>1 DEF MInv, Behind, At
  <2> QED
    BY <2>1, <2>2
<1>7. Behind'
  BY <1>6 DEF Behind, At
<1>8. Fresh(r)'
  BY <1>1 DEF Fresh
<1> QED
  BY <1>2, <1>5, <1>7, <1>8 DEF MInv, SomeoneFresh

LEMMA GotoIs ==
    ASSUME MInv, NEW r \in Runner, NEW label, Goto(r, label),
           label \in {"off", "create", "creating", "check", "sql", "insert",
                      "commit", "done", "failed", "broken"}
    PROVE  /\ [at |-> label, file |-> PlaceOf(r, label)] \in RunnerState
           /\ runner' = [runner EXCEPT ![r] =
                            [at |-> label, file |-> PlaceOf(r, label)]]
<1>1. runner[r].file \in 1..(Files + 1) /\ 1 \in 1..(Files + 1)
  BY MigrationsAssumption DEF MInv, MigrationTypes, RunnerState
<1>2. PlaceOf(r, label) \in 1..(Files + 1)
  BY <1>1 DEF PlaceOf
<1> QED
  BY <1>2 DEF Goto, RunnerState, Ends

LEMMA MStep == MInv /\ RunnersNext => MInv'
<1> SUFFICES ASSUME MInv, NEW r \in Runner,
                    StartRunner(r) \/ RunnerStep(r) \/ BreakStep(r)
             PROVE  MInv'
  BY DEF RunnersNext
<1> DEFINE Moved(label) == [at |-> label, file |-> PlaceOf(r, label)]
<1>0. /\ runner[r] \in RunnerState
      /\ runner[r].file \in 1..(Files + 1) /\ Files \in Nat \ {0}
      /\ \A n \in 1..(runner[r].file - 1) : n \in applied
  BY MigrationsAssumption DEF MInv, MigrationTypes, Behind, RunnerState
<1>13. ASSUME NEW label
       PROVE  /\ \A n \in 1..(PlaceOf(r, label) - 1) : n \in applied
              /\ label \notin {"failed", "broken"}
                    => PlaceOf(r, label) = runner[r].file
              /\ label = "broken" => PlaceOf(r, label) = 1
  BY <1>0 DEF PlaceOf
<1>1. ASSUME NEW x \in RunnerState, runner' = [runner EXCEPT ![r] = x]
      PROVE  runner'[r] = x
  BY <1>1 DEF MInv, MigrationTypes
<1>12. ASSUME NEW x \in RunnerState, runner' = [runner EXCEPT ![r] = x],
              x.at \in {"create", "check", "done", "broken"}
       PROVE  Fresh(r)'
  BY <1>1, <1>12 DEF Fresh
<1>2. CASE StartRunner(r)
  <2> DEFINE x == [at |-> "create", file |-> 1]
  <2>1. x \in RunnerState
    BY <1>0 DEF RunnerState
  <2>2. runner' = [runner EXCEPT ![r] = x]
    BY <1>2 DEF StartRunner
  <2>3. Fresh(r)'
    BY <2>1, <2>2, <1>12
  <2>4. /\ \A n \in 1..(x.file - 1) : n \in applied
        /\ x.at # "done" /\ x.at \notin {"sql", "insert", "commit"}
    OBVIOUS
  <2> HIDE DEF x
  <2> QED
    BY <2>1, <2>2, <2>3, <2>4, <1>2, FreshMove DEF StartRunner
<1>3. CASE CreateLooks(r)
  <2>1. PICK label \in {"check", "creating"} :
          Goto(r, label) /\ (label = "creating" => ~ledgerTable)
    BY <1>3 DEF CreateLooks
  <2>2. Moved(label) \in RunnerState /\ runner' = [runner EXCEPT ![r] = Moved(label)]
    BY <2>1, GotoIs
  <2>3. Fresh(r)'
    BY <2>1, <2>2, <1>1, <1>3, <1>13 DEF Fresh, At, CreateLooks
  <2> QED
    BY <2>2, <2>3, <1>13, <1>3, FreshMove DEF CreateLooks
<1>4. CASE CreateEnds(r) /\ ledgerTable
  <2>1. Goto(r, "failed") /\ ~Fresh(r) /\ UNCHANGED <<ledgerTable, applied, schema>>
    BY <1>4 DEF CreateEnds, Fresh, At, MInv, MigrationTypes
  <2>2. Moved("failed") \in RunnerState /\ runner' = [runner EXCEPT ![r] = Moved("failed")]
    BY <2>1, GotoIs
  <2> QED
    BY <2>1, <2>2, <1>13, FreshMove
<1>5. CASE CreateEnds(r) /\ ~ledgerTable
  <2>1. Goto(r, "check") /\ ledgerTable' = TRUE /\ UNCHANGED <<applied, schema>>
    BY <1>5 DEF CreateEnds
  <2>2. Moved("check") \in RunnerState /\ runner' = [runner EXCEPT ![r] = Moved("check")]
    BY <2>1, GotoIs
  <2>3. /\ \A s \in Runner : runner'[s] = IF s = r THEN Moved("check") ELSE runner[s]
        /\ runner' \in [Runner -> RunnerState]
    BY <2>2 DEF MInv, MigrationTypes
  <2>4. MigrationTypes' /\ SchemaMatchesLedger'
    BY <2>1, <2>3 DEF MInv, MigrationTypes, SchemaMatchesLedger
  <2>5. Behind'
    BY <2>1, <2>3, <1>13 DEF MInv, Behind, At
  <2>6. Fresh(r)'
    BY <2>3 DEF Fresh
  <2> QED
    BY <2>4, <2>5, <2>6 DEF MInv, SomeoneFresh
<1>6. CASE CheckFile(r)
  <2>1. CASE runner[r].file > Files /\ Goto(r, "done")
    <3>1. Moved("done") \in RunnerState /\ runner' = [runner EXCEPT ![r] = Moved("done")]
      BY <2>1, GotoIs
    <3>2. Fresh(r)'
      BY <3>1, <1>12
    <3>3. runner[r].file = Files + 1
      BY <2>1, <1>0
    <3> QED
      BY <3>1, <3>2, <3>3, <1>13, <1>6, FreshMove DEF CheckFile
  <2>2. CASE /\ runner[r].file <= Files /\ IsApplied(runner[r].file)
             /\ runner' = [runner EXCEPT ![r].file = @ + 1]
    <3> DEFINE x == [at |-> "check", file |-> runner[r].file + 1]
    <3>1. x \in RunnerState /\ x = [runner[r] EXCEPT !.file = @ + 1]
      BY <2>2, <1>0, <1>6 DEF RunnerState, CheckFile, At
    <3>2. runner' = [runner EXCEPT ![r] = x]
      BY <2>2, <3>1
    <3>3. Fresh(r)'
      BY <3>1, <3>2, <1>12
    <3>4. \A n \in 1..(x.file - 1) : n \in applied
      BY <2>2, <1>0 DEF IsApplied
    <3> QED
      BY <3>1, <3>2, <3>3, <3>4, <1>6, FreshMove DEF CheckFile
  <2>3. CASE /\ runner[r].file <= Files /\ ~IsApplied(runner[r].file)
             /\ Goto(r, "sql")
    <3>1. Moved("sql") \in RunnerState /\ runner' = [runner EXCEPT ![r] = Moved("sql")]
      BY <2>3, GotoIs
    <3>2. Fresh(r)'
      <4>1. runner'[r] = Moved("sql") /\ applied' = applied
        BY <3>1, <1>1, <1>6 DEF CheckFile
      <4>2. runner'[r].at = "sql" /\ runner'[r].file \notin applied'
        BY <2>3, <4>1, <1>13 DEF IsApplied
      <4> QED
        BY <4>2 DEF Fresh
    <3> QED
      BY <2>3, <3>1, <3>2, <1>13, <1>6, FreshMove DEF CheckFile
  <2> QED
    BY <2>1, <2>2, <2>3, <1>6 DEF CheckFile
<1>7. CASE RunSql(r) \/ InsertApplied(r)
  <2>1. /\ runner[r].at \in {"sql", "insert"}
        /\ UNCHANGED <<ledgerTable, applied, schema>>
    BY <1>7 DEF RunSql, InsertApplied, At
  <2>2. PICK label \in {"failed", "insert", "commit"} :
          Goto(r, label) /\ (Fresh(r) => label # "failed")
    BY <1>7 DEF RunSql, InsertApplied, At, Fresh, MInv, SchemaMatchesLedger
  <2>3. Moved(label) \in RunnerState /\ runner' = [runner EXCEPT ![r] = Moved(label)]
    BY <2>2, GotoIs
  <2>4. Fresh(r) => Fresh(r)'
    BY <2>1, <2>2, <2>3, <1>1, <1>13 DEF Fresh, At
  <2>5. runner[r].file <= Files
    BY <2>1 DEF MInv, Behind
  <2> QED
    BY <2>1, <2>3, <2>4, <2>5, <1>13, FreshMove
<1>8. ASSUME At(r, "commit")
      PROVE  runner[r].file \in File
  BY <1>8, <1>0 DEF MInv, Behind, At, File
<1>9. CASE Commit(r)
  <2> DEFINE x == [at |-> "check", file |-> runner[r].file + 1]
  <2>1. x \in RunnerState /\ runner' = [runner EXCEPT ![r] = x]
    BY <1>0, <1>8, <1>9 DEF Commit, RunnerState, File
  <2> QED
    BY <2>1, <1>8, <1>9, Publish DEF Commit, Committed
<1>10. CASE BreakCommitted(r)
  <2>1. Moved("broken") \in RunnerState /\ runner' = [runner EXCEPT ![r] = Moved("broken")]
    BY <1>10, GotoIs DEF BreakCommitted
  <2> QED
    BY <2>1, <1>8, <1>10, <1>13, Publish DEF BreakCommitted, Committed
<1>11. CASE Break(r)
  <2>1. Moved("broken") \in RunnerState /\ runner' = [runner EXCEPT ![r] = Moved("broken")]
    BY <1>11, GotoIs DEF Break
  <2>2. Fresh(r)'
    BY <2>1, <1>12
  <2> QED
    BY <2>1, <2>2, <1>13, <1>11, FreshMove DEF Break
<1> QED
  BY <1>2, <1>3, <1>4, <1>5, <1>6, <1>7, <1>9, <1>10, <1>11
     DEF RunnerStep, BreakStep

(***************************************************************************)
(* The accounts                                                            *)
(***************************************************************************)
AccountTypes ==
    /\ users \subseteq Row
    /\ form \in [Client -> Form]
    /\ session \in [Client -> Cred \cup {None}]

Unique == \A u, v \in users : u.email = v.email => u = v

Stored(cred) ==
    \E u \in users : u.email = cred.email /\ u.password = cred.password

(* What a form and a session rely on is in the table, where it stays. *)
Backed(c) ==
    /\ form[c].at \in {"inserted", "created"} =>
          \E u \in users : /\ u.by = c /\ u.email = form[c].cred.email
                           /\ u.password = form[c].cred.password
    /\ form[c].at = "comparing" =>
          \E u \in users : /\ u.email = form[c].cred.email
                           /\ u.password = form[c].stored
    /\ session[c] # None => Stored(session[c])
    /\ form[c].at = "denied" => form[c].cred # session[c]

AInv == AccountTypes /\ Unique /\ \A c \in Client : Backed(c)

LEMMA AInit == Init => AInv
<1> SUFFICES ASSUME Init
             PROVE  AInv
  OBVIOUS
<1>1. /\ users = {} /\ form = [c \in Client |-> [at |-> "blank"]]
      /\ session = [c \in Client |-> None]
  BY DEF Init, AccountsInit
<1>2. [at |-> "blank"] \in Form
  BY DEF Form
<1>3. AccountTypes /\ Unique
  BY <1>1, <1>2 DEF AccountTypes, Unique
<1>4. \A c \in Client : form[c].at = "blank" /\ session[c] = None
  BY <1>1
<1> QED
  BY <1>3, <1>4 DEF AInv, Backed

(* A step of one browser or of its handler: it keeps the rows there are,   *)
(* and the other browsers' forms and sessions.                             *)
LEMMA OneBrowser ==
    ASSUME AInv, NEW c \in Client,
           NEW x \in Form, form' = [form EXCEPT ![c] = x],
           NEW s \in Cred \cup {None}, session' = [session EXCEPT ![c] = s],
           users \subseteq users', users' \subseteq Row, Unique', Backed(c)'
    PROVE  AInv'
<1>1. AccountTypes'
  BY DEF AInv, AccountTypes
<1>2. ASSUME NEW d \in Client, d # c
      PROVE  Backed(d)'
  <2>1. form'[d] = form[d] /\ session'[d] = session[d]
    BY <1>2 DEF AInv, AccountTypes
  <2>2. Backed(d)
    BY DEF AInv
  <2> QED
    BY <2>1, <2>2 DEF Backed, Stored
<1> QED
  BY <1>1, <1>2 DEF AInv

(* The same, when neither the table nor the session changes. *)
LEMMA OnlyForm ==
    ASSUME AInv, NEW c \in Client,
           NEW x \in Form, form' = [form EXCEPT ![c] = x],
           UNCHANGED <<users, session>>,
           x.at \notin {"inserted", "created"},
           x.at = "comparing" =>
              \E u \in users : u.email = x.cred.email /\ u.password = x.stored,
           x.at = "denied" => x.cred # session[c]
    PROVE  AInv'
<1>1. form'[c] = x /\ session[c] \in Cred \cup {None}
  BY DEF AInv, AccountTypes
<1>2. session' = [session EXCEPT ![c] = session[c]]
  BY DEF AInv, AccountTypes
<1>3. Unique' /\ users' \subseteq Row /\ users \subseteq users'
  BY DEF AInv, AccountTypes, Unique
<1>4. Backed(c)'
  BY <1>1 DEF AInv, Backed, Stored
<1> QED
  BY <1>1, <1>2, <1>3, <1>4, OneBrowser

(* The three kinds of forms: without credentials, with them, and one whose *)
(* password is being compared.                                             *)
LEMMA FormKinds ==
    /\ \A kind \in {"blank", "welcome", "taken", "lost"} : [at |-> kind] \in Form
    /\ \A kind \in {"register", "hashing", "inserted", "login", "created", "denied"} :
          \A cred \in Cred : [at |-> kind, cred |-> cred] \in Form
    /\ \A cred \in Cred, stored \in Password :
          [at |-> "comparing", cred |-> cred, stored |-> stored] \in Form
<1>1. /\ Answers \ Claims = {"welcome", "taken", "lost"}
      /\ Open \ {"comparing"} = {"register", "hashing", "inserted", "login"}
  BY DEF Answers, Claims, Open
<1> QED
  BY <1>1 DEF Form, Claims

LEMMA FormCred ==
    ASSUME NEW c \in Client, form[c] \in Form, form[c].at \in Open \cup Claims
    PROVE  /\ form[c].cred \in Cred
           /\ form[c].cred.email \in Email /\ form[c].cred.password \in Password
           /\ form[c].at # "comparing" =>
                 form[c] = [at |-> form[c].at, cred |-> form[c].cred]
<1>1. \/ form[c] \in [at: {"blank"} \cup (Answers \ Claims)]
      \/ form[c] \in [at: (Open \ {"comparing"}) \cup Claims, cred: Cred]
      \/ form[c] \in [at: {"comparing"}, cred: Cred, stored: Password]
  BY DEF Form
<1>2. form[c].at \notin {"blank"} \cup (Answers \ Claims)
  BY DEF Answers, Open, Claims
<1>3. \/ form[c] \in [at: (Open \ {"comparing"}) \cup Claims, cred: Cred]
      \/ form[c] \in [at: {"comparing"}, cred: Cred, stored: Password]
  BY <1>1, <1>2
<1> QED
  BY <1>3 DEF Cred

LEMMA ReplyIs ==
    ASSUME NEW c \in Client, form[c] \in Form, form[c].at \in Open,
           NEW kind \in Answers
    PROVE  /\ Reply(c, kind) \in Form /\ Reply(c, kind).at = kind
           /\ kind \in Claims => Reply(c, kind).cred = form[c].cred
  BY FormCred, FormKinds DEF Reply, Answers, Claims

LEMMA AStep ==
    ASSUME AInv, NEW c \in Client, Submit(c) \/ HandlerStep(c)
    PROVE  AInv'
<1>0. form[c] \in Form /\ users \subseteq Row
  BY DEF AInv, AccountTypes
<1>14. ASSUME form[c].at \in Open \ {"comparing"}, NEW stage
       PROVE  /\ form[c] = [at |-> form[c].at, cred |-> form[c].cred]
              /\ form[c].cred \in Cred
              /\ [form[c] EXCEPT !.at = stage]
                   = [at |-> stage, cred |-> form[c].cred]
  <2>1. form[c] = [at |-> form[c].at, cred |-> form[c].cred] /\ form[c].cred \in Cred
    BY <1>0, <1>14, FormCred
  <2> QED
    BY <2>1
<1>1. CASE Submit(c)
  <2>1. PICK mode \in {"register", "login"}, cred \in Cred :
          form' = [form EXCEPT ![c] = [at |-> mode, cred |-> cred]]
    BY <1>1 DEF Submit
  <2> DEFINE x == [at |-> mode, cred |-> cred]
  <2>2. x \in Form /\ x.at \in {"register", "login"}
    BY FormKinds
  <2> HIDE DEF x
  <2> QED
    BY <1>1, <2>1, <2>2, OnlyForm DEF Submit, x
<1>2. ASSUME form[c].at \in Open, NEW kind \in {"taken", "denied"},
             Refuse(c, kind), UNCHANGED users,
             kind = "denied" => form[c].cred # session[c]
      PROVE  AInv'
  <2> DEFINE x == Reply(c, kind)
  <2>1. x \in Form /\ x.at = kind /\ (kind = "denied" => x.cred = form[c].cred)
    BY <1>0, <1>2, ReplyIs DEF Answers, Claims
  <2>2. form' = [form EXCEPT ![c] = x] /\ UNCHANGED <<users, session>>
    BY <1>2 DEF Refuse
  <2> HIDE DEF x
  <2> QED
    BY <1>2, <2>1, <2>2, OnlyForm
<1>3. ASSUME form[c].at \in Open, NEW kind \in {"created", "welcome"},
             Admit(c, kind), UNCHANGED users,
             \E u \in users : /\ u.email = form[c].cred.email
                              /\ u.password = form[c].cred.password
                              /\ kind = "created" => u.by = c
      PROVE  AInv'
  <2> DEFINE x == Reply(c, kind)
  <2>1. /\ x \in Form /\ x.at = kind /\ form[c].cred \in Cred
        /\ kind = "created" => x.cred = form[c].cred
    BY <1>0, <1>3, ReplyIs, FormCred DEF Answers, Claims
  <2>2. /\ form' = [form EXCEPT ![c] = x]
        /\ session' = [session EXCEPT ![c] = form[c].cred]
    BY <1>3 DEF Admit
  <2>3. form'[c] = x /\ session'[c] = form[c].cred
    BY <2>2 DEF AInv, AccountTypes
  <2> HIDE DEF x
  <2>4. Backed(c)'
    BY <1>3, <2>1, <2>3 DEF Backed, Stored
  <2>5. users \subseteq users' /\ users' \subseteq Row /\ Unique'
    BY <1>3 DEF AInv, AccountTypes, Unique
  <2> QED
    BY <2>1, <2>2, <2>4, <2>5, OneBrowser
<1>4. ASSUME form[c].at \in Open, Rows(form[c].cred.email) = {}
      PROVE  form[c].cred # session[c]
  <2>1. form[c].cred \in Cred
    BY <1>0, <1>4, FormCred DEF Open
  <2>2. ASSUME form[c].cred = session[c]
        PROVE  FALSE
    <3>1. session[c] # None
      BY <2>1, <2>2, AccountsAssumption DEF Cred
    <3>2. Stored(form[c].cred)
      BY <2>2, <3>1 DEF AInv, Backed
    <3> QED
      BY <1>4, <3>2 DEF Stored, Rows
  <2> QED
    BY <2>2
<1>5. CASE RegisterRead(c) /\ Rows(form[c].cred.email) # {}
  BY <1>5, <1>2 DEF RegisterRead, Open
<1>6. CASE RegisterRead(c) /\ Rows(form[c].cred.email) = {}
  <2> DEFINE x == [at |-> "hashing", cred |-> form[c].cred]
  <2>1. x = [form[c] EXCEPT !.at = "hashing"] /\ x \in Form
    BY <1>6, <1>14, FormKinds DEF RegisterRead, Open
  <2>2. form' = [form EXCEPT ![c] = [form[c] EXCEPT !.at = "hashing"]]
    BY <1>6 DEF RegisterRead, Await
  <2>3. form' = [form EXCEPT ![c] = x] /\ UNCHANGED <<users, session>>
    BY <1>6, <2>1, <2>2 DEF RegisterRead, Await
  <2>4. x.at = "hashing"
    OBVIOUS
  <2> HIDE DEF x
  <2> QED
    BY <2>1, <2>3, <2>4, OnlyForm
<1>7. CASE RegisterInsert(c) /\ Rows(form[c].cred.email) # {}
  BY <1>7, <1>2 DEF RegisterInsert, InsertUser, Open
<1>8. CASE RegisterInsert(c) /\ Rows(form[c].cred.email) = {}
  <2> DEFINE x == [at |-> "inserted", cred |-> form[c].cred]
  <2>1. /\ users' = users \cup {NewRow(c)} /\ Await(c, "inserted")
        /\ form[c].at = "hashing"
    BY <1>8 DEF RegisterInsert, InsertUser
  <2>2. /\ NewRow(c) \in Row /\ NewRow(c).email = form[c].cred.email
        /\ NewRow(c).password = form[c].cred.password /\ NewRow(c).by = c
    BY <1>0, <2>1, FormCred DEF NewRow, Row, Open
  <2>3. Unique'
    BY <1>8, <2>1, <2>2 DEF AInv, Unique, Rows
  <2>4. x = [form[c] EXCEPT !.at = "inserted"] /\ x \in Form
    BY <2>1, <1>14, FormKinds DEF Open
  <2>5. form' = [form EXCEPT ![c] = [form[c] EXCEPT !.at = "inserted"]]
    BY <2>1 DEF Await
  <2>6. form' = [form EXCEPT ![c] = x]
    BY <2>4, <2>5
  <2>7. x.at = "inserted" /\ x.cred = form[c].cred
    OBVIOUS
  <2> HIDE DEF x
  <2>8. form'[c] = x /\ session' = session /\ session[c] \in Cred \cup {None}
    BY <2>1, <2>6 DEF Await, AInv, AccountTypes
  <2>9. users \subseteq users' /\ users' \subseteq Row
    BY <1>0, <2>1, <2>2
  <2>10. session[c] # None => Stored(session[c])
    BY DEF AInv, Backed
  <2>11. Backed(c)'
    BY <2>1, <2>2, <2>7, <2>8, <2>9, <2>10 DEF Backed, Stored
  <2>12. session' = [session EXCEPT ![c] = session[c]]
    BY <2>8 DEF AInv, AccountTypes
  <2> QED
    BY <2>3, <2>4, <2>6, <2>8, <2>9, <2>11, <2>12, OneBrowser
<1>15. CASE RegisterAnswer(c)
  <2>1. /\ form[c].at = "inserted" /\ Admit(c, "created") /\ UNCHANGED users
    BY <1>15 DEF RegisterAnswer
  <2>2. \E u \in users : /\ u.email = form[c].cred.email
                         /\ u.password = form[c].cred.password /\ u.by = c
    BY <2>1 DEF AInv, Backed
  <2> QED
    BY <2>1, <2>2, <1>3 DEF Open
<1>9. CASE LoginRead(c) /\ Rows(form[c].cred.email) = {}
  BY <1>9, <1>2, <1>4 DEF LoginRead, Open
<1>10. CASE LoginRead(c) /\ Rows(form[c].cred.email) # {}
  <2>1. PICK u \in Rows(form[c].cred.email) :
          form' = [form EXCEPT ![c] =
                     [at |-> "comparing", cred |-> form[c].cred,
                      stored |-> u.password]]
    BY <1>10, <1>14 DEF LoginRead, AInv, AccountTypes, Open
  <2> DEFINE x == [at |-> "comparing", cred |-> form[c].cred, stored |-> u.password]
  <2>2. u \in users /\ u.email = form[c].cred.email /\ u.password \in Password
    BY <1>0, <2>1 DEF Rows, Row
  <2>3. x \in Form /\ x.at = "comparing" /\ x.cred = form[c].cred
        /\ x.stored = u.password
    BY <1>10, <1>14, <2>2, FormKinds DEF LoginRead, Open
  <2>4. UNCHANGED <<users, session>>
    BY <1>10 DEF LoginRead
  <2> HIDE DEF x
  <2> QED
    BY <2>1, <2>2, <2>3, <2>4, OnlyForm DEF x
<1>11. ASSUME LoginCompare(c)
       PROVE  \E u \in users : /\ u.email = form[c].cred.email
                               /\ u.password = form[c].stored
  BY <1>11 DEF LoginCompare, AInv, Backed
<1>12. CASE LoginCompare(c) /\ form[c].cred.password = form[c].stored
  BY <1>0, <1>3, <1>11, <1>12 DEF LoginCompare, Open, AInv, Unique
<1>13. CASE LoginCompare(c) /\ form[c].cred.password # form[c].stored
  <2>1. form[c].cred # session[c]
    <3> SUFFICES ASSUME form[c].cred = session[c]
                 PROVE  FALSE
      OBVIOUS
    <3>1. session[c] # None
      BY <1>0, <1>13, FormCred, AccountsAssumption DEF LoginCompare, Cred, Open
    <3> QED
      BY <3>1, <1>11, <1>13 DEF AInv, Backed, Stored, Unique
  <2> QED
    BY <1>2, <1>13, <2>1 DEF LoginCompare, Open
<1> QED
  BY <1>1, <1>5, <1>6, <1>7, <1>8, <1>9, <1>10, <1>12, <1>13, <1>15
     DEF HandlerStep

(* The process ends: what was open is lost, what was written stays. *)
LEMMA HangupKeeps ==
    ASSUME AInv, Hangup, UNCHANGED <<users, session>>
    PROVE  AInv'
<1>1. ASSUME NEW c \in Client
      PROVE  form'[c] \in Form /\ Backed(c)'
  <2>1. form[c] \in Form /\ Backed(c)
    BY DEF AInv, AccountTypes
  <2>2. CASE Idle(c)
    <3>1. form'[c] = form[c]
      BY <2>2 DEF Hangup
    <3> QED
      BY <2>1, <3>1 DEF Backed, Stored
  <2>3. CASE ~Idle(c)
    <3>1. form'[c] = [at |-> "lost"]
      BY <2>3 DEF Hangup, Reply, Claims
    <3>2. form'[c] \in Form /\ form'[c].at = "lost"
      BY <3>1, FormKinds
    <3> QED
      BY <2>1, <3>2 DEF Backed, Stored
  <2> QED
    BY <2>2, <2>3
<1>2. form' \in [Client -> Form]
  BY <1>1 DEF Hangup
<1> QED
  BY <1>1, <1>2 DEF AInv, AccountTypes, Unique

(***************************************************************************)
(* The deployment                                                          *)
(***************************************************************************)
ServesReady ==
    /\ api \in {"exited", "killed", "up", "closing"}
    /\ Serving => applied = File
    /\ ~Serving => \A c \in Client : Idle(c)

DInv == MInv /\ AInv /\ ServesReady

LEMMA DInit == Init => DInv
<1> SUFFICES ASSUME Init
             PROVE  DInv
  OBVIOUS
<1>1. ServesReady
  BY DEF Init, AccountsInit, ServesReady, Serving, Idle, Open
<1> QED
  BY <1>1, MInit, AInit DEF DInv

(* A runner that is done has applied every file. *)
LEMMA DoneIsAll ==
    ASSUME MInv, MayServe
    PROVE  applied = File
<1>1. PICK r \in Runner : runner[r].at = "done"
  BY DEF MayServe, At
<1>2. \A n \in 1..(runner[r].file - 1) : n \in applied
  BY DEF MInv, Behind
<1>3. runner[r].file = Files + 1 /\ Files \in Nat
  BY <1>1, MigrationsAssumption DEF MInv, Behind, At
<1>4. File \subseteq applied
  BY <1>2, <1>3 DEF File
<1> QED
  BY <1>4 DEF MInv, MigrationTypes

(* A browser's request: only while the process serves. *)
LEMMA BrowserReady ==
    ASSUME DInv, NEW c \in Client, Accept(c) \/ Handle(c)
    PROVE  Serving /\ ServesReady'
<1>1. Serving
  BY DEF Accept, Handle, HandlerStep, RegisterRead, RegisterInsert, RegisterAnswer,
         LoginRead, LoginCompare, DInv, ServesReady, Serving, Idle, Open
<1> QED
  BY <1>1 DEF Accept, Handle, migrations, DInv, ServesReady, Serving

LEMMA RunnersReady ==
    ASSUME DInv, RunnersNext, UNCHANGED <<accounts, api>>
    PROVE  ServesReady'
<1>1. MInv'
  BY MStep DEF DInv
<1>2. applied \subseteq applied'
  BY DEF RunnersNext, StartRunner, RunnerStep, BreakStep, CreateLooks, CreateEnds,
         CheckFile, RunSql, InsertApplied, Commit, Committed, Break, BreakCommitted
<1>3. applied' \subseteq File
  BY <1>1 DEF MInv, MigrationTypes
<1> QED
  BY <1>2, <1>3 DEF DInv, ServesReady, Serving, accounts, Idle

LEMMA DStep == DInv /\ [Next]_vars => DInv'
<1> SUFFICES ASSUME DInv, [Next]_vars
             PROVE  DInv'
  OBVIOUS
<1>1. ASSUME UNCHANGED migrations
      PROVE  MInv'
  BY <1>1 DEF migrations, DInv, MInv, MigrationTypes, SchemaMatchesLedger, Behind,
              SomeoneFresh, Fresh, At
<1>2. ASSUME UNCHANGED accounts
      PROVE  AInv'
  BY <1>2 DEF accounts, DInv, AInv, AccountTypes, Unique, Backed, Stored
<1>3. CASE RunnersNext /\ UNCHANGED <<accounts, api>>
  BY <1>2, <1>3, MStep, RunnersReady DEF DInv
<1>4. ASSUME NEW c \in Client, Accept(c) \/ Handle(c)
      PROVE  DInv'
  BY <1>1, <1>4, AStep, BrowserReady DEF DInv, Accept, Handle
<1>5. CASE StartApi
  BY <1>1, <1>2, <1>5, DoneIsAll
     DEF StartApi, DInv, ServesReady, Serving, migrations, accounts, Idle
<1>6. CASE Terminate \/ Exit
  BY <1>1, <1>2, <1>6
     DEF Terminate, Exit, DInv, ServesReady, Serving, migrations, accounts, Idle
<1>7. CASE Kill
  <2>1. /\ api' = "killed" /\ Hangup
        /\ UNCHANGED <<migrations, users, session>>
    BY <1>7 DEF Kill
  <2>2. \A c \in Client : Idle(c)'
    BY <2>1 DEF Hangup, Reply, Idle, Open
  <2> QED
    BY <1>1, <2>1, <2>2, HangupKeeps DEF DInv, ServesReady, Serving
<1>8. CASE UNCHANGED vars
  BY <1>1, <1>2, <1>8
     DEF vars, DInv, ServesReady, Serving, migrations, accounts, Idle
<1> QED
  BY <1>3, <1>4, <1>5, <1>6, <1>7, <1>8 DEF Next, RunnersNext

LEMMA Deployed == Spec => []DInv
BY DInit, DStep, PTL DEF Spec

(* Every state is well formed. *)
THEOREM DeploymentTyped == Spec => []TypeOK
<1>1. DInv => TypeOK
  BY DEF DInv, MInv, MigrationTypes, SchemaMatchesLedger, AInv, AccountTypes,
         ServesReady, TypeOK
<1> QED
  BY <1>1, Deployed, PTL

(* However many runners race, break or run again, schema_migrations lists  *)
(* exactly the files whose objects exist, and no file before them is       *)
(* missing (migrate.ts:18-37).                                             *)
THEOREM LedgerTrue == Spec => []SchemaMatchesLedger
<1>1. DInv => SchemaMatchesLedger
  BY DEF DInv, MInv
<1> QED
  BY <1>1, Deployed, PTL

(* No request is handled before all tables are there (docker-compose.yml). *)
THEOREM TablesThere == Spec => []RequestsMeetTables
<1>1. DInv => RequestsMeetTables
  BY DEF DInv, MInv, SchemaMatchesLedger, ServesReady, RequestsMeetTables
<1> QED
  BY <1>1, Deployed, PTL

(* Of any number of racing runners, one has not failed (migrate.ts:8-37). *)
THEOREM OneGoesOn == Spec => []NotAllFail
<1>1. DInv => NotAllFail
  BY DEF DInv, MInv, SomeoneFresh, Fresh, NotAllFail, At
<1> QED
  BY <1>1, Deployed, PTL

(* An address has one account, and whoever was told it is theirs has it    *)
(* (authRoutes.ts:18-26).                                                  *)
THEOREM AddressUnique == Spec => []OneAccountPerEmail
<1>1. DInv => OneAccountPerEmail
  BY DEF DInv, AInv, Unique, Backed, OneAccountPerEmail
<1> QED
  BY <1>1, Deployed, PTL

(* Credentials behind a session are not refused to it (authRoutes.ts:33-47). *)
THEOREM SessionStays == Spec => []SessionKept
<1>1. DInv => SessionKept
  BY DEF DInv, AInv, Backed, SessionKept
<1> QED
  BY <1>1, Deployed, PTL

(***************************************************************************)
(* The refinement of Directory                                             *)
(***************************************************************************)
LEMMA RequestIs ==
    ASSUME NEW c \in Client, form[c] \in Form
    PROVE  /\ form[c].at = "hashing"
                => request[c] = [at |-> "register", cred |-> form[c].cred]
           /\ form[c].at = "comparing"
                => request[c] = [at |-> "login", cred |-> form[c].cred]
           /\ form[c].at \in Claims => request[c] = [at |-> form[c].at]
           /\ form[c].at \notin {"hashing", "comparing"} \cup Claims
                => request[c] = form[c]
           /\ form[c].at \in Open => request[c].cred = form[c].cred
           /\ Accounting!Open(c) <=> form[c].at \in Open
  BY DEF request, Request, Claims, Open, Accounting!Open

(* A step of one form is a step of its request alone. *)
LEMMA RequestMoves ==
    ASSUME form \in [Client -> Form], NEW c \in Client, NEW x,
           form' = [form EXCEPT ![c] = x]
    PROVE  request' = [request EXCEPT ![c] = Request(x)]
<1>1. \A d \in Client : form'[d] = IF d = c THEN x ELSE form[d]
  OBVIOUS
<1> QED
  BY <1>1 DEF request

LEMMA AnswerMaps ==
    ASSUME form \in [Client -> Form], NEW c \in Client, NEW kind \in Answers,
           form' = [form EXCEPT ![c] = Reply(c, kind)]
    PROVE  Accounting!Answer(c, kind)
<1>1. Request(Reply(c, kind)) = [at |-> kind]
  BY DEF Request, Reply, Answers, Claims
<1> QED
  BY <1>1, RequestMoves DEF Accounting!Answer

LEMMA NothingMaps ==
    ASSUME form \in [Client -> Form], NEW c \in Client, NEW x,
           form' = [form EXCEPT ![c] = x], Request(x) = request[c]
    PROVE  request' = request
<1>1. request = [d \in Client |-> request[d]]
  BY DEF request
<1>2. request' = [request EXCEPT ![c] = request[c]]
  BY RequestMoves
<1> QED
  BY <1>1, <1>2

LEMMA RegisterMaps ==
    ASSUME AInv, NEW c \in Client,
           RegisterRead(c) \/ RegisterInsert(c) \/ RegisterAnswer(c)
    PROVE  \/ Accounting!Register(c) \/ Accounting!Admit(c)
           \/ Accounting!Refuse(c) \/ UNCHANGED Accounting!vars
<1>0. form \in [Client -> Form] /\ form[c] \in Form
  BY DEF AInv, AccountTypes
<1>1. form[c].at \in {"register", "hashing", "inserted"}
  BY DEF RegisterRead, RegisterInsert, RegisterAnswer
<1>2. /\ form[c] = [at |-> form[c].at, cred |-> form[c].cred]
      /\ request[c].cred = form[c].cred
      /\ form[c].at \in {"register", "hashing"} => request[c].at = "register"
      /\ form[c].at = "inserted" => request[c].at = "inserted"
  <2>1. form[c] = [at |-> form[c].at, cred |-> form[c].cred]
    BY <1>0, <1>1, FormCred DEF Open
  <2>2. request[c].cred = form[c].cred
    BY <1>0, <1>1, RequestIs DEF Open
  <2>3. CASE form[c].at = "hashing"
    <3>1. request[c] = [at |-> "register", cred |-> form[c].cred]
      BY <1>0, <2>3, RequestIs
    <3>2. request[c].at = "register"
      BY <3>1
    <3> QED
      BY <2>1, <2>2, <2>3, <3>2
  <2>4. CASE form[c].at \in {"register", "inserted"}
    <3>1. request[c] = form[c]
      BY <1>0, <2>4, RequestIs DEF Claims
    <3> QED
      BY <2>1, <2>2, <2>4, <3>1
  <2> QED
    BY <1>1, <2>3, <2>4
<1>3. Accounting!Known(c) <=> Rows(form[c].cred.email) # {}
  BY <1>2 DEF Accounting!Known, Accounting!Cr, Rows
<1>4. ASSUME NEW stage
      PROVE  [form[c] EXCEPT !.at = stage] = [at |-> stage, cred |-> form[c].cred]
  BY <1>2
<1>5. ASSUME form[c].at \in {"register", "hashing"}, Refuse(c, "taken"),
             UNCHANGED users, Rows(form[c].cred.email) # {}
      PROVE  Accounting!Refuse(c)
  BY <1>0, <1>2, <1>3, <1>5, AnswerMaps
     DEF Refuse, Answers, Accounting!Refuse
<1>6. CASE RegisterRead(c) /\ Rows(form[c].cred.email) # {}
  BY <1>5, <1>6 DEF RegisterRead
<1>7. CASE RegisterRead(c) /\ Rows(form[c].cred.email) = {}
  <2> DEFINE x == [at |-> "hashing", cred |-> form[c].cred]
  <2>1. form' = [form EXCEPT ![c] = x] /\ UNCHANGED <<users, session>>
    BY <1>4, <1>7 DEF RegisterRead, Await
  <2>2. Request(x) = request[c]
    BY <1>0, <1>2, <1>7, RequestIs DEF Request, RegisterRead, Claims
  <2> HIDE DEF x
  <2> QED
    BY <1>0, <2>1, <2>2, NothingMaps DEF Accounting!vars
<1>8. CASE RegisterInsert(c) /\ Rows(form[c].cred.email) # {}
  BY <1>5, <1>8 DEF RegisterInsert, InsertUser
<1>9. CASE RegisterInsert(c) /\ Rows(form[c].cred.email) = {}
  <2> DEFINE x == [at |-> "inserted", cred |-> form[c].cred]
  <2>1. /\ form' = [form EXCEPT ![c] = x] /\ form[c].at = "hashing"
        /\ users' = users \cup {NewRow(c)} /\ UNCHANGED session
    BY <1>4, <1>9 DEF RegisterInsert, InsertUser, Await
  <2>2. Request(x) = x
    BY DEF Request, Claims
  <2>3. request' = [request EXCEPT ![c] = x]
    <3> HIDE DEF x
    <3> QED
      BY <1>0, <2>1, <2>2, RequestMoves
  <2>4. request' = [request EXCEPT
                      ![c] = [at |-> "inserted", cred |-> Accounting!Cr(c)]]
    BY <1>2, <2>3 DEF Accounting!Cr
  <2>5. NewRow(c) = [email |-> Accounting!Cr(c).email,
                     password |-> Accounting!Cr(c).password, by |-> c]
    BY <1>2 DEF NewRow, Accounting!Cr
  <2> QED
    BY <1>2, <1>3, <1>9, <2>1, <2>4, <2>5 DEF Accounting!Register
<1>10. CASE RegisterAnswer(c)
  BY <1>0, <1>2, <1>10, AnswerMaps
     DEF RegisterAnswer, Admit, Answers, Accounting!Admit, Accounting!Cr
<1> QED
  BY <1>6, <1>7, <1>8, <1>9, <1>10

(* What a login read may be old when it answers; that an account is never  *)
(* changed makes the answer true all the same.                             *)
LEMMA LoginMaps ==
    ASSUME AInv, NEW c \in Client, LoginRead(c) \/ LoginCompare(c)
    PROVE  \/ Accounting!Admit(c) \/ Accounting!Refuse(c)
           \/ UNCHANGED Accounting!vars
<1>0. form \in [Client -> Form] /\ form[c] \in Form
  BY DEF AInv, AccountTypes
<1>1. form[c].at \in {"login", "comparing"}
  BY DEF LoginRead, LoginCompare
<1>2. request[c].cred = form[c].cred /\ request[c].at = "login"
  <2>1. request[c].cred = form[c].cred
    BY <1>0, <1>1, RequestIs DEF Open
  <2>2. CASE form[c].at = "comparing"
    <3>1. request[c] = [at |-> "login", cred |-> form[c].cred]
      BY <1>0, <2>2, RequestIs
    <3>2. request[c].at = "login"
      BY <3>1
    <3> QED
      BY <2>1, <3>2
  <2>3. CASE form[c].at = "login"
    <3>1. request[c] = form[c]
      BY <1>0, <2>3, RequestIs DEF Claims
    <3> QED
      BY <2>1, <2>3, <3>1
  <2> QED
    BY <1>1, <2>2, <2>3
<1>3. Accounting!Held(c) <=> Stored(form[c].cred)
  BY <1>2 DEF Accounting!Held, Accounting!Cr, Stored
<1>4. ASSUME Refuse(c, "denied"), UNCHANGED users, ~Stored(form[c].cred)
      PROVE  Accounting!Refuse(c)
  BY <1>0, <1>2, <1>3, <1>4, AnswerMaps
     DEF Refuse, Answers, Accounting!Refuse
<1>5. CASE LoginRead(c) /\ Rows(form[c].cred.email) = {}
  <2>1. ~Stored(form[c].cred)
    BY <1>5 DEF Stored, Rows
  <2> QED
    BY <1>4, <1>5, <2>1 DEF LoginRead
<1>6. CASE LoginRead(c) /\ Rows(form[c].cred.email) # {}
  <2>1. form[c] = [at |-> form[c].at, cred |-> form[c].cred]
    BY <1>0, <1>6, FormCred DEF LoginRead, Open
  <2>2. PICK u \in Rows(form[c].cred.email) :
          form' = [form EXCEPT ![c] =
                     [at |-> "comparing", cred |-> form[c].cred,
                      stored |-> u.password]]
    BY <1>0, <1>6 DEF LoginRead
  <2> DEFINE x == [at |-> "comparing", cred |-> form[c].cred, stored |-> u.password]
  <2>3. Request(x) = request[c]
    BY <1>0, <1>6, <2>1, RequestIs DEF Request, LoginRead, Claims
  <2>4. UNCHANGED <<users, session>> /\ form' = [form EXCEPT ![c] = x]
    BY <1>6, <2>2 DEF LoginRead
  <2> HIDE DEF x
  <2> QED
    BY <1>0, <2>3, <2>4, NothingMaps DEF Accounting!vars
<1>7. CASE LoginCompare(c)
  <2>1. Stored(form[c].cred) <=> form[c].cred.password = form[c].stored
    BY <1>7 DEF LoginCompare, AInv, Backed, Unique, Stored
  <2>2. CASE form[c].cred.password = form[c].stored
    <3>1. Admit(c, "welcome") /\ UNCHANGED users
      BY <1>7, <2>2 DEF LoginCompare
    <3> QED
      BY <1>0, <1>2, <1>3, <2>1, <2>2, <3>1, AnswerMaps
         DEF Admit, Answers, Accounting!Admit, Accounting!Cr
  <2>3. CASE form[c].cred.password # form[c].stored
    BY <1>4, <1>7, <2>1, <2>3 DEF LoginCompare
  <2> QED
    BY <2>2, <2>3
<1> QED
  BY <1>5, <1>6, <1>7

LEMMA SubmitMaps ==
    ASSUME AInv, NEW c \in Client, Submit(c)
    PROVE  Accounting!Ask(c)
<1>0. form \in [Client -> Form] /\ form[c] \in Form
  BY DEF AInv, AccountTypes
<1>1. PICK mode \in {"register", "login"}, cred \in Cred :
        form' = [form EXCEPT ![c] = [at |-> mode, cred |-> cred]]
  BY DEF Submit
<1> DEFINE x == [at |-> mode, cred |-> cred]
<1>2. Request(x) = x
  BY DEF Request, Claims
<1>3. request' = [request EXCEPT ![c] = x]
  <2> HIDE DEF x
  <2>1. form' = [form EXCEPT ![c] = x]
    BY <1>1 DEF x
  <2> QED
    BY <1>0, <1>2, <2>1, RequestMoves
<1>4. ~Accounting!Open(c)
  BY <1>0, RequestIs DEF Submit, Idle
<1>5. cred \in Accounting!Cred
  BY DEF Cred, Accounting!Cred
<1> QED
  BY <1>3, <1>4, <1>5 DEF Submit, Accounting!Ask

LEMMA HangupMaps ==
    ASSUME AInv, Hangup, UNCHANGED <<users, session>>
    PROVE  Accounting!Lose
<1> DEFINE C == {c \in Client : Accounting!Open(c)}
<1>1. ASSUME NEW c \in Client
      PROVE  request'[c] = IF c \in C THEN [at |-> "lost"] ELSE request[c]
  <2>0. form[c] \in Form
    BY DEF AInv, AccountTypes
  <2>1. CASE Idle(c)
    <3>1. form'[c] = form[c] /\ c \notin C
      BY <2>0, <2>1, RequestIs DEF Hangup, Idle
    <3> QED
      BY <3>1 DEF request
  <2>2. CASE ~Idle(c)
    <3>1. form'[c] = [at |-> "lost"] /\ c \in C
      BY <2>0, <2>2, RequestIs DEF Hangup, Idle, Reply, Claims
    <3>2. Request(form'[c]) = [at |-> "lost"]
      BY <3>1 DEF Request, Claims
    <3> QED
      BY <3>1, <3>2 DEF request
  <2> QED
    BY <2>1, <2>2
<1>2. request' = [c \in Client |-> request'[c]]
  BY DEF request
<1>3. request' = [c \in Client |-> IF c \in C THEN [at |-> "lost"] ELSE request[c]]
  <2> HIDE DEF C
  <2> QED
    BY <1>1, <1>2
<1>4. C \in SUBSET {c \in Client : Accounting!Open(c)}
  OBVIOUS
<1> QED
  BY <1>3, <1>4 DEF Accounting!Lose

LEMMA DirectoryInit == Init => Accounting!Init
<1> SUFFICES ASSUME Init
             PROVE  Accounting!Init
  OBVIOUS
<1>1. /\ users = {} /\ form = [c \in Client |-> [at |-> "blank"]]
      /\ session = [c \in Client |-> None]
  BY DEF Init, AccountsInit
<1>2. Request([at |-> "blank"]) = [at |-> "blank"]
  BY DEF Request, Claims
<1>3. request = [c \in Client |-> [at |-> "blank"]]
  BY <1>1, <1>2 DEF request
<1> QED
  BY <1>1, <1>3 DEF Accounting!Init

LEMMA DirectoryStep ==
    DInv /\ [Next]_vars => [Accounting!Next]_(Accounting!vars)
<1> SUFFICES ASSUME DInv, [Next]_vars
             PROVE  Accounting!Next \/ UNCHANGED Accounting!vars
  OBVIOUS
<1>1. AInv
  BY DEF DInv
<1>2. ASSUME UNCHANGED accounts
      PROVE  UNCHANGED Accounting!vars
  BY <1>2 DEF accounts, request, Accounting!vars
<1>3. ASSUME NEW c \in Client, Accept(c) \/ Handle(c)
      PROVE  Accounting!Next \/ UNCHANGED Accounting!vars
  BY <1>1, <1>3, SubmitMaps, RegisterMaps, LoginMaps
     DEF Accept, Handle, HandlerStep, Accounting!Next
<1>4. CASE Kill
  BY <1>1, <1>4, HangupMaps DEF Kill, Accounting!Next
<1> QED
  BY <1>2, <1>3, <1>4 DEF Next, vars, StartApi, Terminate, Exit

(* Registering and signing in behave as if each were one step on the table *)
(* of accounts: an address goes to one registration, and every answer is   *)
(* true when it is given, for any number of browsers whose handlers        *)
(* interleave at their awaits and for any death of the process             *)
(* (authRoutes.ts:15-47, index.ts:47-56).                                  *)
THEOREM DirectoryKept == Spec => KeepsDirectory
  BY DirectoryInit, DirectoryStep, Deployed, PTL
     DEF Spec, KeepsDirectory, Accounting!Spec
=============================================================================
