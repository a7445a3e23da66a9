--------------------------- MODULE FrontendProofs ---------------------------
(* What a handler's reload shows, for any number of loads, handlers,       *)
(* filters, reads and revisions.                                           *)
EXTENDS Frontend, TLAPS

(***************************************************************************)
(* The inductive invariant: a handler that waits for a load is the only    *)
(* one that does, and nothing the load has read is older than the          *)
(* handler's own write.                                                    *)
(***************************************************************************)
ByHandler(l) == loads[l].at = "open" /\ loads[l].by \in Button

Past == \A b \in Button : acts[b].at # "idle" => acts[b].since <= rev

AfterWrite ==
    \A l \in Slot :
        ByHandler(l) =>
            /\ acts[loads[l].by].at = "loading"
            /\ \A r \in DOMAIN loads[l].got :
                  \/ loads[l].got[r] = Waiting
                  \/ loads[l].got[r] >= acts[loads[l].by].since

OneLoad ==
    \A k, l \in Slot :
        ByHandler(k) /\ ByHandler(l) /\ loads[k].by = loads[l].by => k = l

FInv == TypeOK /\ Past /\ AfterWrite /\ OneLoad

(***************************************************************************)
(* Records                                                                 *)
(***************************************************************************)
LEMMA BlankGot ==
    ASSUME NEW p \in Page
    PROVE  [r \in Reads(p) |-> Waiting] \in Got
<1>1. Waiting \in Waiting..MaxRev
  BY FrontendAssumption DEF Waiting
<1>2. [r \in Reads(p) |-> Waiting] \in [Reads(p) -> Waiting..MaxRev]
  BY <1>1
<1> QED
  BY <1>2 DEF Got

LEMMA OpenedLoad ==
    ASSUME NEW p \in Page, NEW f \in Filter, NEW by \in Button \cup {"page"}
    PROVE  /\ Opened(by, f, p) \in Load
           /\ Opened(by, f, p).at = "open" /\ Opened(by, f, p).by = by
           /\ \A r \in DOMAIN Opened(by, f, p).got :
                 Opened(by, f, p).got[r] = Waiting
BY BlankGot DEF Opened, Load

LEMMA FreeLoad == Free \in Load /\ Free.at # "open"
BY DEF Free, Load

LEMMA RestingAct == Resting \in Act /\ Resting.at = "idle"
BY DEF Resting, Act

LEMMA ActFields ==
    ASSUME TypeOK, NEW b \in Button
    PROVE  /\ acts[b] \in Act
           /\ acts[b].at # "idle" <=> acts[b] # Resting
           /\ acts[b].at # "idle" => acts[b].since \in 0..MaxRev
BY DEF TypeOK, Act, Resting

LEMMA LoadFields ==
    ASSUME TypeOK, NEW l \in Slot, loads[l].at = "open"
    PROVE  /\ loads[l].by \in Button \cup {"page"}
           /\ loads[l].filter \in Filter /\ loads[l].got \in Got
           /\ loads[l] = [at |-> "open", by |-> loads[l].by,
                          filter |-> loads[l].filter, got |-> loads[l].got]
BY DEF TypeOK, Load

(***************************************************************************)
(* Pages that come and go                                                  *)
(***************************************************************************)
(* Whatever a handler becomes when its page is left, it keeps its write;   *)
(* and none waits for a load of the page that is gone.                     *)
LEMMA LeftAct ==
    ASSUME TypeOK, NEW b \in Button
    PROVE  /\ Left(b) \in Act
           /\ Left(b).at # "idle" =>
                 acts[b].at # "idle" /\ Left(b).since = acts[b].since
<1>1. acts[b] \in Act
  BY DEF TypeOK
<1> QED
  BY <1>1, RestingAct DEF Left, Act

LEMMA MountKeeps ==
    ASSUME FInv, NEW p \in Page, Mount(p), rev' = rev, fails' = fails,
           token' \in {"none", "valid", "expired"},
           acts' \in [Button -> Act],
           \A b \in Button :
               acts'[b].at # "idle" =>
                   acts[b].at # "idle" /\ acts'[b].since = acts[b].since
    PROVE  FInv'
<1>1. loads' \in [Slot -> Load] /\ \A l \in Slot : ~ByHandler(l)'
  BY OpenedLoad, FreeLoad, FrontendAssumption DEF Mount, ByHandler
<1>2. TypeOK'
  BY <1>1, FrontendAssumption DEF Mount, FInv, TypeOK, Shown, Nothing
<1>3. Past'
  BY DEF FInv, Past
<1> QED
  BY <1>1, <1>2, <1>3 DEF FInv, AfterWrite, OneLoad

LEMMA GotoKeeps ==
    ASSUME FInv, NEW p \in Page, Goto(p), rev' = rev, fails' = fails,
           token' \in {"none", "valid", "expired"}
    PROVE  FInv'
<1>1. acts' \in [Button -> Act]
  BY LeftAct DEF Goto, FInv
<1>2. ASSUME NEW b \in Button, acts'[b].at # "idle"
      PROVE  acts[b].at # "idle" /\ acts'[b].since = acts[b].since
  BY <1>2, LeftAct DEF Goto, FInv
<1> QED
  BY <1>1, <1>2, MountKeeps DEF Goto

LEMMA PagesKeep ==
    ASSUME FInv, SignIn \/ Logout \/ \E p \in Page : Open(p)
    PROVE  FInv'
<1>1. CASE SignIn
  BY <1>1, GotoKeeps DEF SignIn, Page
<1>2. CASE Logout
  BY <1>2, GotoKeeps DEF Logout, Page
<1>3. CASE \E p \in Page : Open(p)
  BY <1>3, GotoKeeps DEF Open, FInv, TypeOK
<1> QED
  BY <1>1, <1>2, <1>3

(***************************************************************************)
(* Loads                                                                   *)
(***************************************************************************)
(* A load that the page starts.                                            *)
LEMMA PageStarts ==
    ASSUME FInv, NEW f \in Filter, Start("page", f), filter' \in Filter,
           UNCHANGED <<rev, fails, token, page, shown, acts>>
    PROVE  FInv'
<1>1. PICK l \in Slot : loads' = [loads EXCEPT ![l] = Opened("page", f, page)]
  BY DEF Start
<1>2. page \in Page /\ loads \in [Slot -> Load]
  BY DEF FInv, TypeOK
<1>3. loads' \in [Slot -> Load]
  BY <1>1, <1>2, OpenedLoad
<1>4. ASSUME NEW k \in Slot
      PROVE  ByHandler(k)' => ByHandler(k) /\ loads'[k] = loads[k]
  BY <1>1, <1>2, OpenedLoad, FrontendAssumption DEF ByHandler
<1>5. TypeOK'
  BY <1>3 DEF FInv, TypeOK, Start
<1>6. Past' /\ AfterWrite' /\ OneLoad'
  BY <1>4 DEF FInv, Past, AfterWrite, OneLoad
<1> QED
  BY <1>5, <1>6 DEF FInv

(* What has been read is the present revision, no older than any write. *)
LEMMA ReadKeeps ==
    ASSUME FInv, NEW l \in Slot, NEW r \in Reads(page), Read(l, r)
    PROVE  FInv'
<1> DEFINE got == [loads[l].got EXCEPT ![r] = rev]
           load == [loads[l] EXCEPT !.got = got]
<1>1. loads[l].at = "open" /\ r \in DOMAIN loads[l].got
  BY DEF Read
<1>2. loads' = [loads EXCEPT ![l] = load]
  BY DEF Read, Answer
<1>3. rev \in Nat /\ rev \in Waiting..MaxRev
  BY FrontendAssumption DEF FInv, TypeOK, Waiting
<1>4. PICK p \in Page : loads[l].got \in [Reads(p) -> Waiting..MaxRev]
  BY <1>1, LoadFields DEF FInv, Got
<1>5. got \in [Reads(p) -> Waiting..MaxRev]
  BY <1>3, <1>4
<1>6. got \in Got
  BY <1>5 DEF Got
<1>7. load = [at |-> "open", by |-> loads[l].by, filter |-> loads[l].filter,
              got |-> got]
  <2> DEFINE rest == loads[l]
  <2>1. rest = [at |-> "open", by |-> rest.by, filter |-> rest.filter,
                got |-> rest.got]
    BY <1>1, LoadFields DEF FInv
  <2> HIDE DEF rest, got
  <2>2. [rest EXCEPT !.got = got] =
           [at |-> "open", by |-> rest.by, filter |-> rest.filter, got |-> got]
    BY <2>1
  <2> QED
    BY <2>2 DEF rest
<1>8. load \in Load
  BY <1>1, <1>6, <1>7, LoadFields DEF FInv, Load
<1>9. TypeOK'
  BY <1>2, <1>8 DEF Read, FInv, TypeOK
<1>10. \A k \in Slot : /\ loads'[k] = IF k = l THEN load ELSE loads[k]
                       /\ ByHandler(k)' <=> ByHandler(k)
                       /\ loads'[k].at = "open" => loads'[k].by = loads[k].by
  BY <1>1, <1>2, <1>7 DEF FInv, TypeOK, ByHandler
<1>11. Past' /\ OneLoad'
  BY <1>10 DEF Read, FInv, Past, OneLoad, ByHandler
<1>12. ASSUME NEW k \in Slot, ByHandler(k)', NEW s \in DOMAIN loads'[k].got
       PROVE  /\ acts'[loads'[k].by].at = "loading"
              /\ \/ loads'[k].got[s] = Waiting
                 \/ loads'[k].got[s] >= acts'[loads'[k].by].since
  <2>1. ByHandler(k) /\ loads'[k].by = loads[k].by /\ acts' = acts
    BY <1>10, <1>12 DEF Read, ByHandler
  <2>2. acts[loads[k].by].at = "loading"
    BY <2>1 DEF FInv, AfterWrite
  <2>3. acts[loads[k].by].since <= rev /\ acts[loads[k].by].since \in Int
    BY <2>1, <2>2, ActFields DEF FInv, Past, ByHandler
  <2>4. CASE k = l
    <3>1. loads'[k].got = got /\ s \in DOMAIN loads[l].got
      BY <1>7, <1>10, <1>12, <2>4
    <3>2. CASE s = r
      BY <1>3, <2>1, <2>2, <2>3, <3>1, <3>2, <1>4
    <3>3. CASE s # r
      BY <2>1, <2>2, <2>4, <3>1, <3>3, <1>4 DEF FInv, AfterWrite
    <3> QED
      BY <3>2, <3>3
  <2>5. CASE k # l
    BY <1>10, <1>12, <2>1, <2>2, <2>5 DEF FInv, AfterWrite
  <2> QED
    BY <2>4, <2>5
<1>13. AfterWrite'
  <2> SUFFICES ASSUME NEW k \in Slot, ByHandler(k)'
               PROVE  /\ acts'[loads'[k].by].at = "loading"
                      /\ \A s \in DOMAIN loads'[k].got :
                            \/ loads'[k].got[s] = Waiting
                            \/ loads'[k].got[s] >= acts'[loads'[k].by].since
    BY DEF AfterWrite
  <2>1. acts'[loads'[k].by].at = "loading"
    BY <1>10 DEF Read, FInv, AfterWrite, ByHandler
  <2> QED
    BY <1>12, <2>1
<1> QED
  BY <1>9, <1>11, <1>13 DEF FInv

(* When a load ends, so does the one handler that waits for it. *)
LEMMA EndedKeeps ==
    ASSUME FInv, NEW l \in Slot, loads[l].at = "open", Ended(l),
           rev' = rev, fails' \in 0..MaxFails, shown' \in Shown,
           loading' \in BOOLEAN, UNCHANGED <<token, page, filter>>
    PROVE  FInv'
<1>1. /\ loads' \in [Slot -> Load] /\ ~ByHandler(l)'
      /\ \A k \in Slot \ {l} : loads'[k] = loads[k]
  BY FreeLoad DEF Ended, FInv, TypeOK, ByHandler
<1>2. /\ acts' \in [Button -> Act]
      /\ \A b \in Button :
            acts'[b] = IF loads[l].by = b THEN Resting ELSE acts[b]
  BY RestingAct DEF Ended, FInv, TypeOK
<1>3. TypeOK'
  BY <1>1, <1>2 DEF FInv, TypeOK
<1>4. Past'
  BY <1>2, RestingAct DEF FInv, Past
<1>5. ASSUME NEW k \in Slot, ByHandler(k)'
      PROVE  /\ k # l /\ ByHandler(k) /\ loads'[k] = loads[k]
             /\ acts'[loads[k].by] = acts[loads[k].by]
  <2>1. k # l /\ loads'[k] = loads[k] /\ ByHandler(k)
    BY <1>1, <1>5 DEF ByHandler
  <2>2. loads[l].by # loads[k].by
    BY <2>1 DEF FInv, OneLoad, ByHandler
  <2> QED
    BY <1>2, <2>1, <2>2 DEF ByHandler
<1>6. AfterWrite' /\ OneLoad'
  BY <1>5 DEF FInv, AfterWrite, OneLoad
<1> QED
  BY <1>3, <1>4, <1>6 DEF FInv

LEMMA LoadsKeep ==
    ASSUME FInv, NEW l \in Slot, LoadStep(l)
    PROVE  FInv'
<1>1. CASE Finish(l)
  <2>1. shown' \in Shown
    BY <1>1, LoadFields DEF Finish, FInv, Shown
  <2> QED
    BY <1>1, <2>1, EndedKeeps DEF Finish, FInv, TypeOK
<1>2. CASE FailLoad(l)
  <2>1. fails' \in 0..MaxFails
    BY <1>2, FrontendAssumption DEF FailLoad, Fails, FInv, TypeOK
  <2> QED
    BY <1>2, <2>1, EndedKeeps DEF FailLoad, AfterFailure, FInv, TypeOK
<1>3. CASE \E r \in Reads(page) : Read(l, r)
  BY <1>3, ReadKeeps
<1> QED
  BY <1>1, <1>2, <1>3 DEF LoadStep

(***************************************************************************)
(* Handlers                                                                *)
(***************************************************************************)
(* A step of one handler that waits for no load, and starts none. *)
LEMMA ActKeeps ==
    ASSUME FInv, NEW b \in Button, acts[b].at # "loading", NEW act \in Act,
           acts' = [acts EXCEPT ![b] = act],
           rev' \in 0..MaxRev, rev <= rev', fails' \in 0..MaxFails,
           act.at # "idle" => act.since <= rev',
           UNCHANGED <<token, page, filter, shown, loading, loads>>
    PROVE  FInv'
<1>1. acts' \in [Button -> Act]
      /\ \A d \in Button : acts'[d] = IF d = b THEN act ELSE acts[d]
  BY DEF FInv, TypeOK
<1>2. TypeOK'
  BY <1>1 DEF FInv, TypeOK
<1>3. Past'
  <2> SUFFICES ASSUME NEW d \in Button, acts'[d].at # "idle"
               PROVE  acts'[d].since <= rev'
    BY DEF Past
  <2>1. CASE d = b
    BY <1>1, <2>1
  <2>2. CASE d # b
    <3>1. acts[d].since <= rev /\ acts[d].since \in 0..MaxRev /\ rev \in 0..MaxRev
      BY <1>1, <2>2, ActFields DEF FInv, Past, TypeOK
    <3> QED
      BY <1>1, <2>2, <3>1, FrontendAssumption
  <2> QED
    BY <2>1, <2>2
<1>4. \A l \in Slot : ByHandler(l)' => ByHandler(l) /\ loads[l].by # b
  BY DEF FInv, AfterWrite, ByHandler
<1>5. AfterWrite' /\ OneLoad'
  BY <1>1, <1>4 DEF FInv, AfterWrite, OneLoad, ByHandler
<1> QED
  BY <1>2, <1>3, <1>5 DEF FInv

LEMMA ClickKeeps ==
    ASSUME FInv, NEW b \in Button, Click(b)
    PROVE  FInv'
<1> DEFINE act == [at |-> "posting", filter |-> filter, since |-> 0,
                   signed |-> token = "valid", gone |-> FALSE]
<1>1. acts' = [acts EXCEPT ![b] = act] /\ acts[b].at # "loading"
  BY RestingAct DEF Click
<1>2. rev \in 0..MaxRev /\ rev \in Nat /\ 0 \in 0..MaxRev
  BY FrontendAssumption DEF FInv, TypeOK
<1>3. act \in Act
  BY <1>2 DEF FInv, TypeOK, Act
<1>4. rev' \in 0..MaxRev /\ rev <= rev' /\ act.since <= rev'
  BY <1>2 DEF Click
<1>5. /\ UNCHANGED <<rev, fails, token, page, filter, shown, loading, loads>>
      /\ fails' \in 0..MaxFails
  BY DEF Click, FInv, TypeOK
<1> HIDE DEF act
<1> QED
  BY <1>1, <1>2, <1>3, <1>4, <1>5, ActKeeps

LEMMA WriteKeeps ==
    ASSUME FInv, NEW b \in Button, Write(b)
    PROVE  FInv'
<1> DEFINE act == [acts[b] EXCEPT !.at = "done", !.since = rev + 1]
<1>1. acts[b].at = "posting" /\ rev' = rev + 1 /\ rev' \in 0..MaxRev /\ rev \in Nat
  BY FrontendAssumption DEF Write, FInv, TypeOK
<1>2. acts' = [acts EXCEPT ![b] = act]
  BY <1>1 DEF Write, FInv, TypeOK
<1>3. act \in Act /\ act.since <= rev' /\ rev <= rev'
  <2>1. acts[b] \in [at: {"posting", "done", "loading"}, filter: Filter,
                     since: 0..MaxRev, signed: BOOLEAN, gone: BOOLEAN]
    BY <1>1, ActFields DEF FInv, Act
  <2>2. act \in [at: {"posting", "done", "loading"}, filter: Filter,
                 since: 0..MaxRev, signed: BOOLEAN, gone: BOOLEAN]
    BY <1>1, <2>1
  <2>3. act.since = rev + 1
    BY <2>1
  <2> HIDE DEF act
  <2> QED
    BY <1>1, <2>2, <2>3 DEF Act
<1>4. /\ UNCHANGED <<token, page, filter, shown, loading, loads>>
      /\ fails' \in 0..MaxFails /\ acts[b].at # "loading"
  BY DEF Write, FInv, TypeOK
<1> HIDE DEF act
<1> QED
  BY <1>1, <1>2, <1>3, <1>4, ActKeeps

LEMMA PostFailsKeeps ==
    ASSUME FInv, NEW b \in Button, PostFails(b)
    PROVE  FInv'
<1>1. acts[b].at # "loading" /\ acts' = [acts EXCEPT ![b] = Resting]
  BY DEF PostFails
<1>2. fails' \in 0..MaxFails
  BY FrontendAssumption DEF PostFails, Fails, FInv, TypeOK
<1>3. /\ UNCHANGED <<rev, token, page, filter, shown, loading, loads>>
      /\ rev \in 0..MaxRev /\ rev \in Nat
  BY FrontendAssumption DEF PostFails, FInv, TypeOK
<1>4. Resting \in Act /\ Resting.at = "idle" /\ rev <= rev'
  BY <1>3, RestingAct
<1> QED
  BY <1>1, <1>2, <1>3, <1>4, ActKeeps

(* The reload of a handler has read nothing yet, and is its only one. *)
LEMMA ReloadKeeps ==
    ASSUME FInv, NEW b \in Button, acts[b].at = "done",
           Start(b, acts[b].filter),
           acts' = [acts EXCEPT ![b].at = "loading"],
           UNCHANGED <<rev, fails, token, page, filter, shown>>
    PROVE  FInv'
<1> DEFINE act == [acts[b] EXCEPT !.at = "loading"]
<1>1. PICK l \in Slot : loads' = [loads EXCEPT ![l] = Opened(b, acts[b].filter, page)]
  BY DEF Start
<1>2. page \in Page /\ loads \in [Slot -> Load] /\ acts[b].filter \in Filter
  BY DEF FInv, TypeOK, Act
<1>3. /\ loads' \in [Slot -> Load] /\ loads'[l].by = b
      /\ \A r \in DOMAIN loads'[l].got : loads'[l].got[r] = Waiting
      /\ \A k \in Slot \ {l} : loads'[k] = loads[k]
  BY <1>1, <1>2, OpenedLoad
<1>4. act \in Act /\ act.at = "loading" /\ act.since = acts[b].since
  BY ActFields DEF FInv, Act
<1>5. /\ acts' \in [Button -> Act]
      /\ \A d \in Button : acts'[d] = IF d = b THEN act ELSE acts[d]
  BY <1>4 DEF FInv, TypeOK
<1>6. TypeOK'
  BY <1>3, <1>5 DEF FInv, TypeOK, Start
<1>7. Past'
  BY <1>4, <1>5 DEF FInv, Past
<1>8. \A k \in Slot \ {l} :
         ByHandler(k)' => ByHandler(k) /\ loads[k].by # b /\ loads'[k] = loads[k]
  BY <1>3 DEF FInv, AfterWrite, ByHandler
<1>9. ASSUME NEW k \in Slot, ByHandler(k)'
      PROVE  /\ acts'[loads'[k].by].at = "loading"
             /\ \A r \in DOMAIN loads'[k].got :
                   \/ loads'[k].got[r] = Waiting
                   \/ loads'[k].got[r] >= acts'[loads'[k].by].since
  <2>1. CASE k = l
    BY <1>3, <1>4, <1>5, <2>1
  <2>2. CASE k # l
    <3>1. acts'[loads[k].by] = acts[loads[k].by]
      BY <1>5, <1>8, <1>9, <2>2 DEF ByHandler
    <3> QED
      BY <1>8, <1>9, <2>2, <3>1 DEF FInv, AfterWrite
  <2> QED
    BY <2>1, <2>2
<1>10. OneLoad'
  BY <1>3, <1>8 DEF FInv, OneLoad
<1> QED
  BY <1>6, <1>7, <1>9, <1>10 DEF FInv, AfterWrite

LEMMA AnsweredKeeps ==
    ASSUME FInv, NEW b \in Button, Answered(b)
    PROVE  FInv'
<1>1. CASE page = "new" \/ acts[b].gone
  <2>1. /\ Mount(IF token = "none" THEN "login" ELSE "job")
        /\ acts' = [d \in Button |-> IF d = b THEN Resting ELSE Left(d)]
        /\ UNCHANGED <<rev, fails, token>>
    BY <1>1 DEF Answered
  <2>2. acts' \in [Button -> Act]
    BY <2>1, LeftAct, RestingAct DEF FInv
  <2>3. ASSUME NEW d \in Button, acts'[d].at # "idle"
        PROVE  acts[d].at # "idle" /\ acts'[d].since = acts[d].since
    BY <2>1, <2>3, LeftAct, RestingAct DEF FInv
  <2>4. (IF token = "none" THEN "login" ELSE "job") \in Page
    BY DEF Page
  <2>5. token' \in {"none", "valid", "expired"}
    BY <2>1 DEF FInv, TypeOK
  <2> QED
    BY <2>1, <2>2, <2>3, <2>4, <2>5, MountKeeps
<1>2. CASE ~(page = "new" \/ acts[b].gone)
  BY <1>2, ReloadKeeps DEF Answered
<1> QED
  BY <1>1, <1>2

(***************************************************************************)
(* The world outside, and every step                                       *)
(***************************************************************************)
LEMMA ServerMovesKeeps == FInv /\ ServerMoves => FInv'
<1> SUFFICES ASSUME FInv, ServerMoves
             PROVE  FInv'
  OBVIOUS
<1>1. rev' = rev + 1 /\ rev \in Nat /\ rev' \in 0..MaxRev
  BY FrontendAssumption DEF ServerMoves, FInv, TypeOK
<1>2. TypeOK'
  BY <1>1 DEF ServerMoves, FInv, TypeOK
<1>3. Past'
  <2> SUFFICES ASSUME NEW b \in Button, acts[b].at # "idle"
               PROVE  acts[b].since <= rev'
    BY DEF Past, ServerMoves
  <2>1. acts[b].since <= rev /\ acts[b].since \in 0..MaxRev
    BY ActFields DEF FInv, Past
  <2> QED
    BY <1>1, <2>1, FrontendAssumption
<1>4. AfterWrite' /\ OneLoad'
  BY DEF ServerMoves, FInv, AfterWrite, OneLoad, ByHandler
<1> QED
  BY <1>2, <1>3, <1>4 DEF FInv

LEMMA ExpireKeeps == FInv /\ Expire => FInv'
<1> SUFFICES ASSUME FInv, Expire
             PROVE  FInv'
  OBVIOUS
<1>1. ASSUME NEW b \in Button
      PROVE  /\ acts'[b] \in Act /\ acts'[b].at = acts[b].at
             /\ acts[b].at # "idle" => acts'[b].since = acts[b].since
  <2>1. acts'[b] = IF acts[b] = Resting THEN Resting
                   ELSE [acts[b] EXCEPT !.signed = FALSE]
    BY DEF Expire
  <2> QED
    BY <2>1, ActFields, RestingAct DEF FInv, Act
<1>2. acts' \in [Button -> Act]
  BY <1>1 DEF Expire
<1>3. TypeOK'
  BY <1>2 DEF Expire, FInv, TypeOK
<1>4. Past'
  BY <1>1 DEF Expire, FInv, Past
<1>5. AfterWrite' /\ OneLoad'
  BY <1>1 DEF Expire, FInv, AfterWrite, OneLoad, ByHandler
<1> QED
  BY <1>3, <1>4, <1>5 DEF FInv

LEMMA FInit == Init => FInv
<1> SUFFICES ASSUME Init
             PROVE  FInv
  OBVIOUS
<1>1. /\ rev \in 0..MaxRev /\ fails \in 0..MaxFails
      /\ token \in {"none", "valid", "expired"} /\ page \in Page
      /\ filter \in Filter
  BY FrontendAssumption DEF Init, Page
<1>2. loading \in BOOLEAN /\ shown \in Shown
  BY DEF Init, Shown, Nothing
<1>3. loads \in [Slot -> Load] /\ acts \in [Button -> Act]
  BY FreeLoad, RestingAct DEF Init
<1>4. TypeOK
  BY <1>1, <1>2, <1>3 DEF TypeOK
<1>5. Past /\ AfterWrite /\ OneLoad
  BY FreeLoad, RestingAct DEF Init, Past, AfterWrite, OneLoad, ByHandler
<1> QED
  BY <1>4, <1>5 DEF FInv

LEMMA FStep == FInv /\ [Next]_vars => FInv'
<1> SUFFICES ASSUME FInv, [Next]_vars
             PROVE  FInv'
  OBVIOUS
<1>1. CASE SignIn \/ Logout \/ \E p \in Page : Open(p)
  BY <1>1, PagesKeep
<1>2. CASE Expire
  BY <1>2, ExpireKeeps
<1>3. CASE ServerMoves
  BY <1>3, ServerMovesKeeps
<1>4. CASE Poll
  BY <1>4, PageStarts DEF Poll, FInv, TypeOK
<1>5. CASE \E f \in Filter : ChangeFilter(f)
  BY <1>5, PageStarts DEF ChangeFilter
<1>6. CASE \E l \in Slot : LoadStep(l)
  BY <1>6, LoadsKeep
<1>7. ASSUME NEW b \in Button, Click(b) \/ ActStep(b)
      PROVE  FInv'
  BY <1>7, ClickKeeps, WriteKeeps, PostFailsKeeps, AnsweredKeeps DEF ActStep
<1>8. CASE UNCHANGED vars
  BY <1>8 DEF vars, FInv, TypeOK, Past, AfterWrite, OneLoad, ByHandler
<1> QED
  BY <1>1, <1>2, <1>3, <1>4, <1>5, <1>6, <1>7, <1>8 DEF Next

LEMMA FHolds == Spec => []FInv
BY FInit, FStep, PTL DEF Spec

(* Every variable of the tab keeps its type, whatever answers, fails or    *)
(* expires, and in whatever order.                                         *)
THEOREM FrontendTyped == Spec => []TypeOK
<1>1. FInv => TypeOK
  BY DEF FInv
<1> QED
  BY <1>1, FHolds, PTL

(* A handler that ends with its load shows nothing older than its own      *)
(* write, however many other loads and handlers are under way.             *)
THEOREM WritesShown == Spec => ReadYourWrites
<1>1. ASSUME FInv, NEW l \in Slot, Finish(l), loads[l].by \in Button,
             NEW r \in DOMAIN shown'.got
      PROVE  shown'.got[r] >= acts[loads[l].by].since
  <2>1. shown'.got = loads[l].got /\ loads[l].got[r] # Waiting /\ ByHandler(l)
    BY <1>1 DEF Finish, ByHandler
  <2> QED
    BY <1>1, <2>1 DEF FInv, AfterWrite, Finish
<1>2. FInv => [\A l \in Slot :
                  Finish(l) /\ loads[l].by \in Button =>
                      \A r \in DOMAIN shown'.got :
                          shown'.got[r] >= acts[loads[l].by].since]_vars
  BY <1>1
<1> QED
  BY <1>2, FHolds, PTL DEF ReadYourWrites
=============================================================================
