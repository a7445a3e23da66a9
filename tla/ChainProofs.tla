---------------------------- MODULE ChainProofs ----------------------------
(* What the attempts of one run promise, for every setting of the job.     *)
EXTENDS RetryChain, WellFoundedInduction, TLAPS

(***************************************************************************)
(* The inductive invariant: the answer belongs to the call that gave it,   *)
(* and a run that is over makes no other call.                             *)
(***************************************************************************)
CallShape ==
    /\ stage = "headers" => status = None
    /\ stage = "body" => status \in Status

Counted ==
    /\ maxRetries \in Nat
    /\ attempt \in 1..(maxRetries + 1)

Stops == over => stage = "done" /\ (result.ok \/ attempt = maxRetries + 1)

ChainInv == CallShape /\ Counted /\ Stops /\ FailureHasReason

LEMMA ChainInit == Init => ChainInv
<1> SUFFICES ASSUME Init
             PROVE  ChainInv
  OBVIOUS
<1>1. Counted
  BY ChainAssumption DEF Init, Counted
<1>2. CallShape /\ Stops /\ FailureHasReason
  BY DEF Init, CallInit, CallShape, Stops, FailureHasReason
<1> QED
  BY <1>1, <1>2 DEF ChainInv

(***************************************************************************)
(* A step of the call                                                      *)
(***************************************************************************)
LEMMA Fetched ==
    ASSUME FetchFails
    PROVE  CallShape' /\ (CallShape => FailureHasReason')
<1>1. /\ stage' = "done" /\ aborted' = aborted /\ status' = status
      /\ result' = [ok |-> FALSE, status |-> None,
                    error |-> IF aborted THEN "Timed out" ELSE "Network error"]
  BY DEF FetchFails
<1>2. stage = "headers"
  BY DEF FetchFails
<1>3. ~result'.ok /\ result'.error # None
  BY <1>1, StatusAssumption DEF Reason
<1>4. (result'.error = "Timed out") <=> aborted
  BY <1>1
<1>5. None \notin 200..299
  BY StatusAssumption
<1> QED
  BY <1>1, <1>2, <1>3, <1>4, <1>5, Zenon DEF CallShape, FailureHasReason

LEMMA Read ==
    ASSUME NEW text, ReadBody(text)
    PROVE  CallShape' /\ (CallShape => FailureHasReason')
<1>1. /\ stage = "body" /\ stage' = "done"
      /\ aborted' = aborted /\ status' = status /\ result' = Judged(status)
  BY DEF ReadBody
<1> SUFFICES ASSUME CallShape
             PROVE  CallShape' /\ FailureHasReason'
  BY <1>1 DEF CallShape
<1>2. status \in 200..599 /\ status # None
  BY <1>1, StatusAssumption DEF CallShape
<1>3. IsSuccess(status) <=> status \in 200..299
  BY <1>2 DEF IsSuccess
<1>4. (result'.ok <=> IsSuccess(status)) /\ result'.error # "Timed out"
  BY <1>1, StatusAssumption DEF Judged, Reason
<1>5. (result'.error = None) <=> IsSuccess(status)
  BY <1>1, StatusAssumption DEF Judged, Reason
<1> QED
  BY <1>1, <1>2, <1>3, <1>4, <1>5, Zenon DEF CallShape, FailureHasReason

LEMMA CallingKeeps == ChainInv /\ Calling => ChainInv'
<1> SUFFICES ASSUME ChainInv, Calling
             PROVE  ChainInv'
  OBVIOUS
<1>1. stage # "done"
  BY DEF Calling, CallStep, HeadersArrive, FetchFails, BodyArrives, BodyBreaks,
         ReadBody, TimerFires, TimerSet, Tick
<1>2. UNCHANGED chain
  BY DEF Calling
<1>3. Counted' /\ Stops'
  BY <1>1, <1>2 DEF chain, ChainInv, Counted, Stops
<1>4. ASSUME HeadersArrive \/ TimerFires \/ Tick
      PROVE  CallShape' /\ FailureHasReason'
  <2>1. CallShape' /\ stage' # "done"
    BY <1>1, <1>4 DEF HeadersArrive, TimerFires, Tick, CallShape, ChainInv
  <2> QED
    BY <2>1, Zenon DEF FailureHasReason
<1>6. CallShape' /\ FailureHasReason'
  BY <1>4, Fetched, Read
     DEF Calling, CallStep, BodyArrives, BodyBreaks, ChainInv
<1> QED
  BY <1>3, <1>6 DEF ChainInv

(***************************************************************************)
(* A decision: the run is over exactly when its retries are used up.       *)
(***************************************************************************)
LEMMA SuccessKeeps == ChainInv /\ Succeed => ChainInv'
<1> SUFFICES ASSUME ChainInv, Succeed
             PROVE  ChainInv'
  OBVIOUS
<1>1. UNCHANGED <<call, maxRetries, attempt>> /\ stage = "done" /\ result.ok
  BY DEF Succeed
<1>2. Counted' /\ Stops'
  BY <1>1 DEF call, ChainInv, Counted, Stops
<1>3. CallShape' /\ FailureHasReason'
  BY <1>1, Zenon DEF call, ChainInv, CallShape, FailureHasReason
<1> QED
  BY <1>2, <1>3 DEF ChainInv

LEMMA FailureKeeps == ChainInv /\ Fail => ChainInv'
<1> SUFFICES ASSUME ChainInv, Fail
             PROVE  ChainInv'
  OBVIOUS
<1>1. /\ attempt' = NextAttempt(attempt, maxRetries)
      /\ over' = ~ShouldRetry(attempt, maxRetries)
      /\ maxRetries' = maxRetries /\ stage = "done"
  BY DEF Fail
<1>2. CASE ShouldRetry(attempt, maxRetries)
  <2>1. ~over' /\ CallAgain
    BY <1>1, <1>2 DEF Fail
  <2>2. Counted'
    BY <1>1, <1>2 DEF NextAttempt, ShouldRetry, ChainInv, Counted
  <2> QED
    BY <2>1, <2>2 DEF CallAgain, ChainInv, CallShape, Stops, FailureHasReason
<1>3. CASE ~ShouldRetry(attempt, maxRetries)
  <2>1. UNCHANGED call /\ attempt' = attempt
    BY <1>1, <1>3 DEF Fail, NextAttempt
  <2>2. attempt = maxRetries + 1
    BY <1>3 DEF ShouldRetry, ChainInv, Counted
  <2>3. Counted' /\ Stops'
    BY <1>1, <2>1, <2>2 DEF call, ChainInv, Counted, Stops
  <2>4. CallShape' /\ FailureHasReason'
    BY <2>1, Zenon DEF call, ChainInv, CallShape, FailureHasReason
  <2> QED
    BY <2>3, <2>4 DEF ChainInv
<1> QED
  BY <1>2, <1>3

LEMMA ChainStep == ChainInv /\ [Next]_vars => ChainInv'
<1>1. ASSUME ChainInv, UNCHANGED vars
      PROVE  ChainInv'
  <2>1. UNCHANGED <<call, chain>>
    BY <1>1 DEF vars
  <2>2. Counted' /\ Stops'
    BY <1>1, <2>1 DEF call, chain, ChainInv, Counted, Stops
  <2>3. CallShape' /\ FailureHasReason'
    BY <1>1, <2>1, Zenon DEF call, ChainInv, CallShape, FailureHasReason
  <2> QED
    BY <2>2, <2>3 DEF ChainInv
<1> QED
  BY <1>1, CallingKeeps, SuccessKeeps, FailureKeeps DEF Next

(* A run makes its first attempt and as many retries as the job asks for,  *)
(* no more, and fewer only after a success (worker.ts:90-112, 138).        *)
THEOREM RetriesExact == Spec => []ExactlyMaxRetries
<1>1. ChainInv => ExactlyMaxRetries
  BY DEF ChainInv, Counted, Stops, ExactlyMaxRetries
<1> QED
  BY <1>1, ChainInit, ChainStep, PTL DEF Spec

(* Every call's answer tells success, timeout and the other failures apart *)
(* (httpExecutor.ts:41-56).                                                *)
THEOREM ReasonGiven == Spec => []FailureHasReason
<1>1. ChainInv => FailureHasReason
  BY DEF ChainInv
<1> QED
  BY <1>1, ChainInit, ChainStep, PTL DEF Spec

(***************************************************************************)
(* The recursive definition of PowerOfTwo reaches the provers as a CHOOSE. *)
(* That its equation has a solution is shown by approximations on 0..n,    *)
(* which exist for every n and agree where two are defined; the induction  *)
(* on n is that of a set of naturals, from the least number outside it.    *)
(***************************************************************************)
LEMMA NatSet ==
    ASSUME NEW S, 0 \in S, \A n \in Nat : n \in S => n + 1 \in S
    PROVE  Nat \subseteq S
<1> DEFINE T == Nat \ S
           R == OpToRel(<, Nat)
<1> SUFFICES ASSUME T # {}
             PROVE  FALSE
  OBVIOUS
<1>0. IsWellFoundedOn(R, Nat)
  BY NatLessThanWellFounded
<1>1. PICK m \in T : \A k \in T : ~(<<k, m>> \in R)
  <2> HIDE DEF R
  <2> QED BY <1>0, WFMin
<1>2. \A k \in T : ~(k < m)
  BY <1>1 DEF OpToRel
<1>3. m \in Nat /\ m # 0 /\ m - 1 \in Nat
  OBVIOUS
<1> QED
  BY <1>2, <1>3

Doubles(g, n) ==
    /\ g \in [0..n -> Nat]
    /\ g[0] = 1
    /\ \A i \in 1..n : g[i] = 2 * g[i - 1]

LEMMA DoublesAgree ==
    ASSUME NEW n \in Nat, NEW m \in Nat, NEW g, NEW h,
           Doubles(g, n), Doubles(h, m),
           NEW i \in Nat, i <= n, i <= m
    PROVE  g[i] = h[i]
<1> DEFINE S == {j \in Nat : j <= n /\ j <= m => g[j] = h[j]}
<1>1. 0 \in S
  BY DEF Doubles
<1>2. \A j \in Nat : j \in S => j + 1 \in S
  <2> SUFFICES ASSUME NEW j \in Nat, j \in S, j + 1 <= n, j + 1 <= m
               PROVE  g[j + 1] = h[j + 1]
    OBVIOUS
  <2>1. g[j] = h[j]
    OBVIOUS
  <2>2. j + 1 \in 1..n /\ j + 1 \in 1..m /\ (j + 1) - 1 = j
    OBVIOUS
  <2>3. g[j + 1] = 2 * g[(j + 1) - 1] /\ h[j + 1] = 2 * h[(j + 1) - 1]
    BY <2>2 DEF Doubles
  <2> QED
    BY <2>1, <2>2, <2>3
<1>3. Nat \subseteq S
  <2> HIDE DEF S
  <2> QED BY <1>1, <1>2, NatSet
<1> QED
  BY <1>3

LEMMA DoublesExist == \A n \in Nat : \E g : Doubles(g, n)
<1> DEFINE S == {n \in Nat : \E g : Doubles(g, n)}
<1>1. 0 \in S
  <2> DEFINE g == [i \in 0..0 |-> 1]
  <2>1. Doubles(g, 0)
    BY DEF Doubles
  <2> QED
    BY <2>1
<1>2. \A n \in Nat : n \in S => n + 1 \in S
  <2> SUFFICES ASSUME NEW n \in Nat, NEW h, Doubles(h, n)
               PROVE  \E g : Doubles(g, n + 1)
    OBVIOUS
  <2> DEFINE g == [i \in 0..(n + 1) |-> IF i = n + 1 THEN 2 * h[n] ELSE h[i]]
  <2>0. h \in [0..n -> Nat]
    BY DEF Doubles
  <2>1. g \in [0..(n + 1) -> Nat] /\ g[0] = 1
    BY <2>0 DEF Doubles
  <2>2. ASSUME NEW i \in 1..(n + 1)
        PROVE  g[i] = 2 * g[i - 1]
    <3>1. g[i - 1] = h[i - 1]
      OBVIOUS
    <3>2. CASE i = n + 1
      BY <3>1, <3>2
    <3>3. CASE i # n + 1
      <4>1. i \in 1..n /\ g[i] = h[i]
        BY <3>3
      <4> QED
        BY <3>1, <4>1 DEF Doubles
    <3> QED
      BY <3>2, <3>3
  <2>3. Doubles(g, n + 1)
    <3> HIDE DEF g
    <3> QED
      BY <2>1, <2>2 DEF Doubles
  <2> QED
    BY <2>3
<1>3. Nat \subseteq S
  <2> HIDE DEF S
  <2> QED BY <1>1, <1>2, NatSet
<1> QED
  BY <1>3

LEMMA Powers ==
    /\ PowerOfTwo \in [Nat -> Nat \ {0}]
    /\ PowerOfTwo[0] = 1
    /\ \A n \in Nat : PowerOfTwo[n + 1] = 2 * PowerOfTwo[n]
<1> DEFINE G(n) == CHOOSE g : Doubles(g, n)
           f == [n \in Nat |-> G(n)[n]]
           Eq(ff) == ff = [n \in Nat |-> IF n = 0 THEN 1 ELSE 2 * ff[n - 1]]
<1>1. \A n \in Nat : Doubles(G(n), n)
  BY DoublesExist
<1> HIDE DEF G
<1>2. f[0] = 1
  <2>1. Doubles(G(0), 0)
    BY <1>1
  <2> QED
    BY <2>1 DEF Doubles
<1>3. ASSUME NEW n \in Nat
      PROVE  f[n + 1] = 2 * f[n]
  <2>1. Doubles(G(n + 1), n + 1) /\ Doubles(G(n), n)
    BY <1>1
  <2>2. G(n + 1)[n] = G(n)[n]
    BY <2>1, DoublesAgree
  <2>3. n + 1 \in 1..(n + 1) /\ (n + 1) - 1 = n
    OBVIOUS
  <2>4. G(n + 1)[n + 1] = 2 * G(n + 1)[(n + 1) - 1]
    BY <2>1, <2>3 DEF Doubles
  <2> QED
    BY <2>2, <2>3, <2>4
<1>4. Eq(f)
  <2> DEFINE r == [n \in Nat |-> IF n = 0 THEN 1 ELSE 2 * f[n - 1]]
  <2>1. ASSUME NEW n \in Nat
        PROVE  f[n] = r[n]
    <3>1. CASE n = 0
      BY <1>2, <3>1
    <3>2. CASE n # 0
      <4>1. n - 1 \in Nat /\ (n - 1) + 1 = n
        BY <3>2
      <4>2. f[(n - 1) + 1] = 2 * f[n - 1]
        BY <4>1, <1>3
      <4> HIDE DEF f
      <4> QED
        BY <3>2, <4>1, <4>2
    <3> QED
      BY <3>1, <3>2
  <2>2. f = [n \in Nat |-> f[n]] /\ r = [n \in Nat |-> r[n]]
    OBVIOUS
  <2> HIDE DEF r, f
  <2>3. f = r
    BY <2>1, <2>2
  <2> QED
    BY <2>3 DEF r
<1>5. PowerOfTwo = CHOOSE ff : Eq(ff)
  BY DEF PowerOfTwo
<1>6. Eq(PowerOfTwo)
  <2> HIDE DEF f, Eq
  <2> QED
    BY <1>4, <1>5
<1>7. \A n \in Nat : PowerOfTwo[n] = IF n = 0 THEN 1 ELSE 2 * PowerOfTwo[n - 1]
  <2> DEFINE r == [n \in Nat |-> IF n = 0 THEN 1 ELSE 2 * PowerOfTwo[n - 1]]
  <2>1. PowerOfTwo = r
    BY <1>6
  <2>2. \A n \in Nat : r[n] = IF n = 0 THEN 1 ELSE 2 * PowerOfTwo[n - 1]
    OBVIOUS
  <2> HIDE DEF r
  <2> QED
    BY <2>1, <2>2
<1>8. PowerOfTwo[0] = 1 /\ \A n \in Nat : PowerOfTwo[n + 1] = 2 * PowerOfTwo[n]
  <2>1. \A n \in Nat : n + 1 \in Nat /\ n + 1 # 0 /\ (n + 1) - 1 = n
    OBVIOUS
  <2> QED
    BY <1>7, <2>1
<1>9. \A n \in Nat : PowerOfTwo[n] \in Nat \ {0}
  <2> DEFINE S == {n \in Nat : PowerOfTwo[n] \in Nat \ {0}}
  <2>1. 0 \in S
    BY <1>8
  <2>2. \A n \in Nat : n \in S => n + 1 \in S
    BY <1>8
  <2>3. Nat \subseteq S
    <3> HIDE DEF S
    <3> QED
      BY <2>1, <2>2, NatSet
  <2> QED
    BY <2>3
<1>10. PowerOfTwo = [n \in Nat |-> PowerOfTwo[n]]
  <2> DEFINE r == [n \in Nat |-> IF n = 0 THEN 1 ELSE 2 * PowerOfTwo[n - 1]]
  <2>1. PowerOfTwo = r
    BY <1>6
  <2>2. r = [n \in Nat |-> r[n]]
    OBVIOUS
  <2> HIDE DEF r
  <2> QED
    BY <2>1, <2>2
<1> QED
  BY <1>8, <1>9, <1>10

(***************************************************************************)
(* The growth of the delays.  Before the first retry nothing was waited    *)
(* for; afterwards the delay is one that was decided for the attempt       *)
(* before.                                                                 *)
(***************************************************************************)
Waited ==
    /\ base \in Nat \ {0}
    /\ maxRetries \in Nat /\ attempt \in Nat \ {0}
    /\ \/ over
       \/ attempt = 1 /\ delay = 0
       \/ attempt > 1 /\ delay \in Delays(attempt - 1, maxRetries, base)

LEMMA WaitedInit == Init => Waited
  BY ChainAssumption DEF Init, Waited

LEMMA WaitedStep == Waited /\ [Next]_vars => Waited'
<1> SUFFICES ASSUME Waited, [Next]_vars
             PROVE  Waited'
  OBVIOUS
<1>1. CASE UNCHANGED chain
  BY <1>1 DEF chain, Waited
<1>2. CASE Succeed
  BY <1>2 DEF Succeed, Waited
<1>3. CASE Fail
  <2>1. /\ base' = base /\ maxRetries' = maxRetries
        /\ delay' \in Delays(attempt, maxRetries, base)
        /\ attempt' = NextAttempt(attempt, maxRetries)
        /\ over' = ~ShouldRetry(attempt, maxRetries)
    BY <1>3 DEF Fail
  <2>2. CASE ~ShouldRetry(attempt, maxRetries)
    BY <2>1, <2>2 DEF NextAttempt, Waited
  <2>3. CASE ShouldRetry(attempt, maxRetries)
    <3>1. attempt \in Nat \ {0} /\ base \in Nat \ {0} /\ maxRetries \in Nat
      BY DEF Waited
    <3>2. attempt' = attempt + 1
      BY <2>1, <2>3 DEF NextAttempt
    <3>3. attempt' > 1 /\ attempt' - 1 = attempt /\ attempt' \in Nat \ {0}
      BY <3>1, <3>2
    <3>4. delay' \in Delays(attempt' - 1, maxRetries', base')
      BY <2>1, <3>3
    <3> QED
      BY <2>1, <3>1, <3>3, <3>4 DEF Waited
  <2> QED
    BY <2>2, <2>3
<1> QED
  BY <1>1, <1>2, <1>3 DEF Next, Calling, vars

(* What is cut at the cap is positive, and twice as much for the next      *)
(* attempt unless the cap is reached.                                      *)
LEMMA CappedDoubles ==
    ASSUME NEW n \in Nat \ {0}, NEW b \in Nat \ {0}
    PROVE  /\ Capped(n, b) \in Nat
           /\ Capped(n, b) > 0 \/ Capped(n, b) = CapMs
           /\ \/ Capped(n + 1, b) = 2 * Capped(n, b)
              \/ Capped(n + 1, b) = CapMs
<1> DEFINE p == PowerOfTwo[n - 1]
<1>1. n - 1 \in Nat /\ (n - 1) + 1 = (n + 1) - 1
  OBVIOUS
<1>2. p \in Nat \ {0} /\ PowerOfTwo[(n + 1) - 1] = 2 * p
  BY <1>1, Powers
<1> DEFINE x == b * p
<1>3. b * (2 * p) = 2 * x /\ x \in Nat /\ x > 0
  <2> HIDE DEF p
  <2> QED
    BY <1>2
<1> HIDE DEF x, p
<1>4. Capped(n, b) = IF x < CapMs THEN x ELSE CapMs
  BY DEF Capped, x, p
<1>5. Capped(n + 1, b) = IF 2 * x < CapMs THEN 2 * x ELSE CapMs
  BY <1>2, <1>3 DEF Capped
<1> QED
  BY <1>3, <1>4, <1>5, CapAssumption

(* The jitter is less than the delay it is added to, and never negative.   *)
LEMMA JitterSmall ==
    ASSUME NEW x \in Nat, NEW k \in Jitter(x)
    PROVE  k \in Nat /\ (k < x \/ k = 0)
  BY DEF Jitter

LEMMA DelayOf ==
    ASSUME NEW n, NEW m, NEW b, NEW d \in Delays(n, m, b),
           ShouldRetry(n, m)
    PROVE  \E k \in Jitter(Capped(n, b)) : d = Capped(n, b) + k
  BY DEF Delays

(* Every retry waits longer than the one before, or for the cap, whatever  *)
(* the jitter adds to either and for every base and limit                  *)
(* (retryPolicy.ts:19-23, 35-42).                                          *)
THEOREM DelaysGrow == Spec => BackoffGrows
<1> DEFINE Grows == attempt' # attempt => delay' > delay \/ delay' >= CapMs
<1>1. ASSUME Waited, [Next]_vars, attempt' # attempt
      PROVE  delay' > delay \/ delay' >= CapMs
  <2>1. Fail
    BY <1>1 DEF Next, Calling, Succeed, chain, vars
  <2>2. /\ ShouldRetry(attempt, maxRetries) /\ ~over
        /\ delay' \in Delays(attempt, maxRetries, base)
    BY <1>1, <2>1 DEF Fail, NextAttempt
  <2>3. attempt \in Nat \ {0} /\ base \in Nat \ {0} /\ maxRetries \in Nat
    BY <1>1 DEF Waited
  <2> DEFINE y == Capped(attempt, base)
  <2>4. PICK j \in Jitter(y) : delay' = y + j
    BY <2>2, DelayOf
  <2>5. y \in Nat /\ j \in Nat /\ (y > 0 \/ y = CapMs)
    BY <2>3, <2>4, CappedDoubles, JitterSmall
  <2>6. CASE attempt = 1
    <3>1. delay = 0
      BY <1>1, <2>2, <2>6 DEF Waited
    <3> HIDE DEF y
    <3> QED
      BY <2>4, <2>5, <3>1
  <2>7. CASE attempt # 1
    <3> DEFINE n == attempt - 1
               x == Capped(n, base)
    <3>1. n \in Nat \ {0} /\ n + 1 = attempt
      BY <2>3, <2>7
    <3>2. delay \in Delays(n, maxRetries, base) /\ ShouldRetry(n, maxRetries)
      BY <1>1, <2>2, <2>3, <2>7 DEF Waited, ShouldRetry
    <3> HIDE DEF n
    <3>3. PICK k \in Jitter(x) : delay = x + k
      BY <3>2, DelayOf
    <3>4. x \in Nat /\ (x > 0 \/ x = CapMs) /\ (y = 2 * x \/ y = CapMs)
      BY <2>3, <3>1, CappedDoubles
    <3>5. k \in Nat /\ (k < x \/ k = 0)
      BY <3>3, <3>4, JitterSmall
    <3> HIDE DEF x, y
    <3> QED
      BY <2>4, <2>5, <3>3, <3>4, <3>5, CapAssumption
  <2> QED
    BY <2>6, <2>7
<1>2. Waited /\ [Next]_vars => [Grows]_vars
  BY <1>1
<1> QED
  BY <1>2, WaitedInit, WaitedStep, PTL DEF Spec, BackoffGrows
=============================================================================
