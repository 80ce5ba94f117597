-------------------------- MODULE RateLimiterProofs --------------------------
(***************************************************************************)
(* Theorems about the rate limiter: for every configuration, the bucket    *)
(* admits exactly what its budget allows, and rounding the interval never  *)
(* throttles a client within the configured rate.                          *)
(***************************************************************************)
EXTENDS RateLimiter, TLAPS

-----------------------------------------------------------------------------
(***************************************************************************)
(* Arithmetic.                                                             *)
(***************************************************************************)

\* One more call costs one more interval.
LEMMA OneMore ==
    ASSUME NEW n \in Int, NEW i \in Int
    PROVE  n * i \in Int /\ (n + 1) * i = n * i + i
BY SMT

\* A rounded-down quotient does not exceed the dividend when multiplied again.
LEMMA Quotient ==
    ASSUME NEW p \in Nat, p > 0
    PROVE  60000 \div p \in Nat /\ p * (60000 \div p) <= 60000
BY SMT

\* Multiplying keeps order.
LEMMA TimesKeepsOrder ==
    ASSUME NEW a \in Int, NEW b \in Int, NEW n \in Nat, a <= b
    PROVE  n * a \in Int /\ n * b \in Int /\ n * a <= n * b
BY SMT

\* Over the budget of a rounded-down interval is over the configured rate.
LEMMA RateArithmetic ==
    ASSUME NEW n \in Nat, NEW b \in Nat, NEW w \in Nat, NEW p \in Nat, NEW i \in Nat,
           p > 0, p * i <= 60000, n * i > b * i + w
    PROVE  ~(n * 60000 <= b * 60000 + w * p)
<1> DEFINE m == n - b
<1>1. m \in Int /\ m * i \in Int /\ m * i = n * i - b * i
  BY SMT
<1>2. m * i >= w + 1
  BY <1>1, SMT
<1> HIDE DEF m
<1>3. m > 0
  <2> SUFFICES ASSUME m <= 0 PROVE m * i <= 0
    BY <1>1, <1>2, SMT
  <2>1. QED
    BY <1>1, SMT
<1>4. p * (m * i) >= p * w + p
  <2>1. p * (w + 1) <= p * (m * i)
    BY <1>1, <1>2, TimesKeepsOrder
  <2>2. p * (w + 1) = p * w + p
    BY SMT
  <2>3. QED
    BY <2>1, <2>2
<1>5. m * (p * i) <= m * 60000
  BY <1>1, <1>3, TimesKeepsOrder
<1>6. m * (p * i) = p * (m * i)
  BY <1>1, SMT
<1>7. m * 60000 > w * p
  <2>1. p * w \in Int /\ p * (m * i) \in Int /\ m * (p * i) \in Int /\ m * 60000 \in Int
    BY <1>1, SMT
  <2>2. p * w = w * p
    BY SMT
  <2>3. QED
    BY <1>4, <1>5, <1>6, <2>1, <2>2
<1>8. QED
  BY <1>1, <1>7, SMT DEF m

-----------------------------------------------------------------------------
(***************************************************************************)
(* The inductive invariant.  A bucket holds what the tightest stretch of   *)
(* time leaves of the budget: no stretch leaves less, and one leaves just  *)
(* that.                                                                   *)
(***************************************************************************)

\* What is left of the budget of the time since s for client c.
Left(c, s) == Capacity + (now - s) - used[c][s] * Interval

\* No stretch of time leaves less than what is in the bucket ...
Fits == \A c \in Clients : \A s \in 0..now : credit[c] <= Left(c, s)

\* ... and one leaves exactly that.
Tight == \A c \in Clients : \E s \in 0..now : credit[c] = Left(c, s)

\* Nothing has been counted for times to come.
Future == \A c \in Clients : \A s \in 0..MaxTime : s > now => used[c][s] = 0

Ledger == Layered(cfg) => Fits /\ Tight

Inv == TypeOK /\ Future /\ Ledger

\* The configuration makes a positive interval and a capacity that is a number.
LEMMA Numbers ==
    ASSUME cfg \in Config
    PROVE  /\ Interval \in Nat /\ Interval > 0 /\ Capacity \in Nat
           /\ cfg.per_minute \in Nat /\ cfg.burst \in Nat
           /\ cfg.burst > 0 => Capacity >= Interval
<1>1. cfg.per_minute \in Nat /\ cfg.burst \in Nat
  BY DEF Config
<1>2. Interval \in Nat /\ Interval > 0
  <2>1. CASE cfg.per_minute = 0
    BY <2>1 DEF Interval, ReplenishInterval
  <2>2. CASE cfg.per_minute > 0
    BY <1>1, <2>2, Quotient DEF Interval, ReplenishInterval
  <2>3. QED
    BY <1>1, <2>1, <2>2
<1> HIDE DEF Interval
<1>3. Capacity \in Nat
  BY <1>1, <1>2, SMT DEF Capacity
<1>4. cfg.burst > 0 => Capacity >= Interval
  BY <1>1, <1>2, SMT DEF Capacity
<1>5. QED
  BY <1>1, <1>2, <1>3, <1>4

\* Every configuration the router can be built with is a Config.
LEMMA Configured == Init => cfg \in Config
<1> SUFFICES ASSUME Init PROVE cfg \in Config
  OBVIOUS
<1>1. CASE cfg \in Explicit
  BY <1>1, LimiterAssumption
<1>2. ASSUME NEW r \in Rates, NEW b \in Bursts, NEW s \in Switches
      PROVE  FromEnv(r, b, s) \in Config
  <2>1. Positive(r, 10) \in Nat /\ Positive(b, 5) \in Nat
    BY LimiterAssumption DEF Positive
  <2>2. (s \in {"true", "1", "yes"}) \in BOOLEAN
    OBVIOUS
  <2>3. QED
    BY <2>1, <2>2 DEF FromEnv, Config
<1>3. QED
  BY <1>1, <1>2 DEF Init

LEMMA InitInv == Init => Inv
<1> SUFFICES ASSUME Init PROVE Inv
  OBVIOUS
<1>1. /\ cfg \in Config /\ now = 0 /\ MaxTime \in Nat
      /\ \A c \in Clients : credit[c] = Capacity /\ used[c][0] = 0
  BY Configured, LimiterAssumption DEF Init
<1>2. TypeOK
  BY <1>1, Numbers, LimiterAssumption DEF Init, TypeOK
<1>3. Future
  BY DEF Init, Future
<1>4. ASSUME NEW c \in Clients PROVE credit[c] = Left(c, 0)
  <2>1. Interval \in Nat /\ Capacity \in Nat /\ used[c][0] = 0
    BY <1>1, Numbers
  <2>2. used[c][0] * Interval = 0
    BY <2>1
  <2>3. QED
    BY <1>1, <2>1, <2>2 DEF Left
<1>5. Fits /\ Tight
  BY <1>1, <1>4, Numbers DEF Fits, Tight
<1>6. QED
  BY <1>2, <1>3, <1>5 DEF Inv, Ledger

-----------------------------------------------------------------------------
(***************************************************************************)
(* Steps.                                                                  *)
(***************************************************************************)

\* A call that gets through counts for every stretch of time that has begun.
LEMMA PassCounts ==
    ASSUME TypeOK, NEW c \in Clients, NEW route \in Sensitive, Pass(c, route)
    PROVE  /\ used' \in [Clients -> [0..MaxTime -> Nat]]
           /\ \A s \in 0..MaxTime :
                  used'[c][s] = IF s <= now THEN used[c][s] + 1 ELSE used[c][s]
           /\ \A d \in Clients \ {c} : used'[d] = used[d]
<1>1. /\ used \in [Clients -> [0..MaxTime -> Nat]] /\ now \in Int /\ MaxTime \in Nat
      /\ used' = [used EXCEPT ![c] = [s \in 0..MaxTime |->
                                         IF s <= now THEN used[c][s] + 1 ELSE used[c][s]]]
  BY LimiterAssumption DEF TypeOK, Pass
<1>2. [s \in 0..MaxTime |-> IF s <= now THEN used[c][s] + 1 ELSE used[c][s]]
          \in [0..MaxTime -> Nat]
  BY <1>1
<1>3. QED
  BY <1>1, <1>2

LEMMA AdmitInv ==
    ASSUME Inv, NEW c \in Clients, NEW route, Admit(c, route)
    PROVE  Inv'
<1> USE DEF Inv
<1>1. /\ route \in Sensitive /\ Pass(c, route) /\ Layered(cfg)
      /\ now' = now /\ cfg' = cfg /\ now \in 0..MaxTime /\ MaxTime \in Nat /\ cfg \in Config
  BY LimiterAssumption DEF Admit, Pass, LimitedRoutes, Sensitive, TypeOK
<1>2. /\ used' \in [Clients -> [0..MaxTime -> Nat]]
      /\ \A s \in 0..MaxTime :
             used'[c][s] = IF s <= now THEN used[c][s] + 1 ELSE used[c][s]
      /\ \A d \in Clients \ {c} : used'[d] = used[d]
  BY <1>1, PassCounts
<1>3. Interval' = Interval /\ Capacity' = Capacity /\ Layered(cfg)' = Layered(cfg)
  BY <1>1 DEF Interval, Capacity, Layered
<1>4. /\ credit[c] >= Interval
      /\ credit \in [Clients -> 0..Capacity]
      /\ credit' = [credit EXCEPT ![c] = @ - Interval]
      /\ Interval \in Nat /\ Capacity \in Nat
  BY <1>1, Numbers DEF Admit, TypeOK
<1>5. TypeOK'
  <2>1. credit' \in [Clients -> 0..Capacity]
    BY <1>4
  <2>2. status' \in [Clients -> {"none", "pass", "429", "500"}]
    BY <1>1 DEF Pass, TypeOK
  <2>3. QED
    BY <1>1, <1>2, <1>3, <2>1, <2>2 DEF TypeOK
<1>6. Future'
  <2> SUFFICES ASSUME NEW d \in Clients, NEW s \in 0..MaxTime, s > now
               PROVE  used'[d][s] = 0
    BY <1>1 DEF Future
  <2>1. used[d][s] = 0
    BY DEF Future
  <2>2. ~(s <= now)
    BY <1>1
  <2>3. QED
    BY <1>2, <2>1, <2>2
<1>7. ASSUME NEW d \in Clients, NEW s \in 0..now
      PROVE  /\ (credit[d] <= Left(d, s)) => (credit'[d] <= Left(d, s)')
             /\ (credit[d] = Left(d, s)) => (credit'[d] = Left(d, s)')
  <2>1. s \in 0..MaxTime /\ used[d][s] \in Nat /\ credit[d] \in Int /\ now \in Int
    BY <1>1, <1>4 DEF TypeOK
  <2>2. CASE d = c
    <3>1. used'[d][s] = used[d][s] + 1 /\ credit'[d] = credit[d] - Interval
      BY <1>2, <1>4, <2>1, <2>2
    <3>2. used[d][s] * Interval \in Int
          /\ (used[d][s] + 1) * Interval = used[d][s] * Interval + Interval
      BY <1>4, <2>1, OneMore
    <3>3. Left(d, s)' = Left(d, s) - Interval
      BY <1>1, <1>3, <1>4, <2>1, <3>1, <3>2 DEF Left
    <3>4. Left(d, s) \in Int
      BY <1>4, <2>1, <3>2 DEF Left
    <3> HIDE DEF Left
    <3>5. QED
      BY <1>4, <2>1, <3>1, <3>3, <3>4
  <2>3. CASE d # c
    BY <1>1, <1>2, <1>3, <1>4, <2>3 DEF Left
  <2>4. QED
    BY <2>2, <2>3
<1>8. Fits' /\ Tight'
  <2>1. Fits /\ Tight
    BY <1>1 DEF Ledger
  <2>2. Fits'
    BY <1>1, <1>7, <2>1 DEF Fits
  <2>3. Tight'
    BY <1>1, <1>7, <2>1 DEF Tight
  <2>4. QED
    BY <2>2, <2>3
<1>9. QED
  BY <1>5, <1>6, <1>8 DEF Ledger

LEMMA TickInv == Inv /\ Tick => Inv'
<1> SUFFICES ASSUME Inv, Tick PROVE Inv'
  OBVIOUS
<1> USE DEF Inv
<1>1. /\ now \in 0..MaxTime /\ now' = now + 1 /\ now' \in 0..MaxTime /\ MaxTime \in Nat
      /\ cfg' = cfg /\ used' = used /\ status' = status /\ cfg \in Config
  BY LimiterAssumption DEF Tick, TypeOK
<1>2. Interval' = Interval /\ Capacity' = Capacity /\ Layered(cfg)' = Layered(cfg)
  BY <1>1 DEF Interval, Capacity, Layered
<1>3. /\ Interval \in Nat /\ Capacity \in Nat
      /\ credit \in [Clients -> 0..Capacity]
      /\ credit' = [c \in Clients |-> IF credit[c] < Capacity THEN credit[c] + 1 ELSE credit[c]]
  BY <1>1, Numbers DEF Tick, TypeOK
<1>4. TypeOK'
  <2>1. credit' \in [Clients -> 0..Capacity]
    BY <1>3
  <2>2. QED
    BY <1>1, <1>2, <2>1 DEF TypeOK
<1>5. Future'
  BY <1>1 DEF Future
<1>6. ASSUME NEW c \in Clients, NEW s \in 0..now
      PROVE  /\ Left(c, s) \in Int
             /\ Left(c, s)' = Left(c, s) + 1
  <2>1. s \in 0..MaxTime /\ used[c][s] \in Nat
    BY <1>1 DEF TypeOK
  <2>2. used[c][s] * Interval \in Int
    BY <1>3, <2>1, OneMore
  <2>3. QED
    BY <1>1, <1>2, <1>3, <2>1, <2>2 DEF Left
<1>7. ASSUME NEW c \in Clients, NEW s \in 0..MaxTime, s = now'
      PROVE  Left(c, s)' = Capacity
  <2>1. used'[c][s] = 0
    BY <1>1, <1>7 DEF Future
  <2>2. 0 * Interval = 0
    BY <1>3
  <2>3. QED
    BY <1>1, <1>2, <1>3, <1>7, <2>1, <2>2 DEF Left
<1> HIDE DEF Left
<1>8. Layered(cfg) => Fits' /\ Tight'
  <2> SUFFICES ASSUME Layered(cfg) PROVE Fits' /\ Tight'
    OBVIOUS
  <2>1. Fits /\ Tight
    BY DEF Ledger
  <2>2. ASSUME NEW c \in Clients, NEW s \in 0..now'
        PROVE  credit'[c] <= Left(c, s)'
    <3>1. credit[c] \in 0..Capacity /\ credit'[c] \in 0..Capacity
          /\ credit'[c] <= credit[c] + 1
      BY <1>3
    <3>2. CASE s = now'
      BY <1>1, <1>3, <1>7, <3>1, <3>2
    <3>3. CASE s \in 0..now
      BY <1>6, <2>1, <3>1, <3>3 DEF Fits
    <3>4. QED
      BY <1>1, <3>2, <3>3
  <2>3. ASSUME NEW c \in Clients
        PROVE  \E s \in 0..now' : credit'[c] = Left(c, s)'
    <3>1. CASE credit[c] < Capacity
      <4>1. PICK s \in 0..now : credit[c] = Left(c, s)
        BY <2>1 DEF Tight
      <4>2. credit'[c] = Left(c, s)'
        BY <1>3, <1>6, <3>1, <4>1
      <4>3. QED
        BY <1>1, <4>1, <4>2
    <3>2. CASE ~(credit[c] < Capacity)
      <4>1. credit'[c] = Capacity
        BY <1>3, <3>2
      <4>2. PICK s \in 0..MaxTime : s = now'
        BY <1>1
      <4>3. s \in 0..now' /\ Left(c, s)' = Capacity
        BY <1>1, <1>7, <4>2
      <4>4. QED
        BY <4>1, <4>3
    <3>3. QED
      BY <3>1, <3>2
  <2>4. QED
    BY <2>2, <2>3 DEF Fits, Tight
<1>9. QED
  BY <1>2, <1>4, <1>5, <1>8 DEF Ledger

LEMMA StepInv == Inv /\ [Next]_vars => Inv'
<1> SUFFICES ASSUME Inv, [Next]_vars PROVE Inv'
  OBVIOUS
<1>1. ASSUME NEW c \in Clients, NEW route, Throttle(c, route) \/ Unidentified(c, route)
      PROVE  Inv'
  <2>1. status' \in [Clients -> {"none", "pass", "429", "500"}]
    BY <1>1 DEF Throttle, Unidentified, Inv, TypeOK
  <2>2. UNCHANGED <<now, cfg, credit, used>>
    BY <1>1 DEF Throttle, Unidentified
  <2>3. QED
    BY <2>1, <2>2
       DEF Inv, TypeOK, Future, Ledger, Fits, Tight, Left, Capacity, Interval, Layered
<1>2. ASSUME NEW c \in Clients, NEW route \in Routes, Bypass(c, route)
      PROVE  Inv'
  <2>1. /\ now' = now /\ cfg' = cfg /\ credit' = credit
        /\ status' \in [Clients -> {"none", "pass", "429", "500"}]
    BY <1>2 DEF Bypass, Pass, Inv, TypeOK
  <2>2. CASE route \in Sensitive
    <3>1. ~Layered(cfg)
      BY <1>2, <2>2 DEF Bypass, LimitedRoutes, Sensitive
    <3>2. Pass(c, route)
      BY <1>2 DEF Bypass
    <3>3. /\ used' \in [Clients -> [0..MaxTime -> Nat]]
          /\ \A s \in 0..MaxTime :
                 used'[c][s] = IF s <= now THEN used[c][s] + 1 ELSE used[c][s]
          /\ \A d \in Clients \ {c} : used'[d] = used[d]
      BY <2>2, <3>2, PassCounts DEF Inv
    <3>4. TypeOK'
      BY <2>1, <3>3 DEF Inv, TypeOK, Capacity, Interval
    <3>5. Future'
      <4> SUFFICES ASSUME NEW d \in Clients, NEW s \in 0..MaxTime, s > now
                   PROVE  used'[d][s] = 0
        BY <2>1 DEF Future
      <4>1. used[d][s] = 0
        BY DEF Inv, Future
      <4>2. ~(s <= now)
        BY LimiterAssumption DEF Inv, TypeOK
      <4>3. QED
        BY <3>3, <4>1, <4>2
    <3>6. QED
      BY <2>1, <3>1, <3>4, <3>5 DEF Inv, Ledger, Layered
  <2>3. CASE route \notin Sensitive
    <3>1. used' = used
      BY <1>2, <2>3 DEF Bypass, Pass
    <3>2. QED
      BY <2>1, <3>1
         DEF Inv, TypeOK, Future, Ledger, Fits, Tight, Left, Capacity, Interval, Layered
  <2>4. QED
    BY <2>2, <2>3
<1>3. CASE UNCHANGED vars
  BY <1>3
     DEF vars, Inv, TypeOK, Future, Ledger, Fits, Tight, Left, Capacity, Interval, Layered
<1>4. QED
  BY <1>1, <1>2, <1>3, AdmitInv, TickInv DEF Next, Call

\* What the inductive invariant establishes.
LEMMA Invariance == Spec => []Inv
  BY InitInv, StepInv, PTL DEF Spec

-----------------------------------------------------------------------------

\* Every reachable state has the declared types: no bucket is overdrawn or holds more
\* than its burst.
THEOREM LimiterTypes == Spec => []TypeOK
<1>1. Inv => TypeOK
  BY DEF Inv
<1>2. QED
  BY <1>1, Invariance, PTL

\* The layer lets a further call through exactly if every stretch of time stays within
\* a burst and one call per interval, whatever the configuration and the clients.
THEOREM BudgetHolds == Spec => []BudgetIsExact
<1>1. Inv => BudgetIsExact
  <2> SUFFICES ASSUME Inv, Layered(cfg), NEW c \in Clients
               PROVE  credit[c] >= Interval
                          <=> \A s \in 0..now : WithinBudget(used[c][s] + 1, s)
    BY DEF BudgetIsExact
  <2>1. /\ Fits /\ Tight /\ cfg \in Config /\ now \in 0..MaxTime /\ MaxTime \in Nat
        /\ credit[c] \in 0..Capacity
    BY LimiterAssumption DEF Inv, Ledger, TypeOK
  <2>2. Interval \in Nat /\ Capacity \in Nat
    BY <2>1, Numbers
  <2>3. ASSUME NEW s \in 0..now
        PROVE  /\ Left(c, s) \in Int
               /\ WithinBudget(used[c][s] + 1, s) <=> Left(c, s) >= Interval
    <3>1. used[c][s] \in Nat
      BY <2>1 DEF Inv, TypeOK
    <3>2. used[c][s] * Interval \in Int
          /\ (used[c][s] + 1) * Interval = used[c][s] * Interval + Interval
      BY <2>2, <3>1, OneMore
    <3>3. QED
      BY <2>1, <2>2, <3>2 DEF Left, WithinBudget
  <2>4. QED
    BY <2>1, <2>2, <2>3 DEF Fits, Tight
<1>2. QED
  BY <1>1, Invariance, PTL

\* Rounding the interval down never makes the limiter stricter than configured.
THEOREM NeverStricterHolds == Spec => []NeverStricterThanConfigured
<1>1. Inv => NeverStricterThanConfigured
  <2> SUFFICES ASSUME Inv, Layered(cfg), 0 < cfg.per_minute, cfg.per_minute <= 60000,
                      NEW c \in Clients, credit[c] < Interval
               PROVE  \E s \in 0..now : ~WithinRate(used[c][s] + 1, s)
    BY DEF NeverStricterThanConfigured
  <2>1. /\ Tight /\ cfg \in Config /\ now \in 0..MaxTime /\ MaxTime \in Nat
        /\ credit[c] \in 0..Capacity
    BY LimiterAssumption DEF Inv, Ledger, TypeOK
  <2>2. /\ Interval \in Nat /\ Capacity \in Nat /\ cfg.burst \in Nat
        /\ cfg.per_minute \in Nat /\ cfg.per_minute > 0
    BY <2>1, Numbers
  <2>3. cfg.per_minute * Interval <= 60000
    <3>1. /\ 60000 \div cfg.per_minute \in Nat
          /\ cfg.per_minute * (60000 \div cfg.per_minute) <= 60000
      BY <2>2, Quotient
    <3>2. CASE 60000 \div cfg.per_minute > 1
      BY <2>2, <3>1, <3>2 DEF Interval, ReplenishInterval
    <3>3. CASE ~(60000 \div cfg.per_minute > 1)
      <4>1. Interval = 1
        BY <2>2, <3>1, <3>3 DEF Interval, ReplenishInterval
      <4>2. QED
        BY <2>2, <4>1
    <3>4. QED
      BY <3>2, <3>3
  <2>4. PICK s \in 0..now : credit[c] = Left(c, s)
    BY <2>1 DEF Tight
  <2> DEFINE n == used[c][s]
             w == now - s
  <2>5. n \in Nat /\ w \in Nat
    BY <2>1 DEF Inv, TypeOK
  <2>6. (n + 1) * Interval > cfg.burst * Interval + w
    <3>1. n * Interval \in Int /\ (n + 1) * Interval = n * Interval + Interval
      BY <2>2, <2>5, OneMore
    <3>2. credit[c] = cfg.burst * Interval + w - n * Interval
      BY <2>4 DEF Left, Capacity
    <3>3. cfg.burst * Interval \in Int
      BY <2>2 DEF Capacity
    <3>4. QED
      BY <2>1, <2>2, <2>5, <3>1, <3>2, <3>3
  <2>7. ~((n + 1) * 60000 <= cfg.burst * 60000 + w * cfg.per_minute)
    <3> HIDE DEF n, w
    <3>1. n + 1 \in Nat
      BY <2>5
    <3>2. QED
      BY <2>2, <2>3, <2>5, <2>6, <3>1, RateArithmetic
  <2>8. QED
    BY <2>7 DEF WithinRate
<1>2. QED
  BY <1>1, Invariance, PTL

-----------------------------------------------------------------------------
(***************************************************************************)
(* The buckets implement RateBudget.                                       *)
(***************************************************************************)

\* A bucket holds enough for a call exactly when every stretch of time has room for it.
LEMMA BucketHasRoom ==
    ASSUME BudgetIsExact, Layered(cfg), NEW c \in Clients
    PROVE  credit[c] >= Interval <=> Budget!MayCall(c)
BY DEF BudgetIsExact, WithinBudget, Capacity, Budget!MayCall, Budget!Room

\* A call that gets through is let through: counted if its endpoint is sensitive.
LEMMA PassLets ==
    ASSUME NEW c \in Clients, NEW route, Pass(c, route),
           route \in Sensitive /\ Layered(cfg) => Budget!MayCall(c)
    PROVE  Budget!Next
<1> DEFINE limit == [on |-> Layered(cfg), burst |-> cfg.burst, interval |-> Interval]
<1>1. limit' = limit /\ limit.on = Layered(cfg)
  BY DEF Pass, Interval, Layered
<1> HIDE DEF limit
<1>2. Budget!Answer(c, "pass")
  BY <1>1 DEF Pass, Budget!Answer, limit
<1>3. CASE route \in Sensitive
  <2>1. Budget!Let(c)
    BY <1>2, <1>3 DEF Pass, Budget!Let
  <2>2. QED
    BY <2>1 DEF Budget!Next
<1>4. CASE route \notin Sensitive
  <2>1. Budget!LetUncounted(c)
    BY <1>2, <1>4 DEF Pass, Budget!LetUncounted
  <2>2. QED
    BY <2>1 DEF Budget!Next
<1>5. QED
  BY <1>3, <1>4

\* The token buckets refuse a call exactly when a log of all earlier calls would: for
\* every rate and burst, a client gets a burst and one call per interval over every
\* stretch of time, and neither other clients nor refused calls count against it.
THEOREM BucketsHold == Spec => BucketsKeepBudget
<1>1. Init => Budget!Init
  <2> SUFFICES ASSUME Init PROVE Budget!Init
    OBVIOUS
  <2>1. cfg \in Config
    BY Configured
  <2>2. Interval \in Nat /\ cfg.burst \in Nat /\ Layered(cfg) \in BOOLEAN
    BY <2>1, Numbers DEF Layered, Config
  <2>3. QED
    BY <2>2 DEF Init, Budget!Init
<1>2. Inv /\ BudgetIsExact /\ [Next]_vars => [Budget!Next]_(Budget!budget)
  <2> SUFFICES ASSUME Inv, BudgetIsExact, [Next]_vars PROVE [Budget!Next]_(Budget!budget)
    OBVIOUS
  <2>1. ASSUME NEW c \in Clients, NEW route \in Routes, Admit(c, route)
        PROVE  Budget!Next
    BY <2>1, BucketHasRoom, PassLets DEF Admit
  <2>2. ASSUME NEW c \in Clients, NEW route \in Routes, Bypass(c, route)
        PROVE  Budget!Next
    BY <2>2, PassLets DEF Bypass, LimitedRoutes, Sensitive
  <2>3. ASSUME NEW c \in Clients, NEW route \in Routes, Throttle(c, route)
        PROVE  Budget!Next
    <3>1. ~Budget!MayCall(c)
      <4>1. credit[c] \in Int /\ Interval \in Int
        BY Numbers DEF Inv, TypeOK
      <4>2. QED
        BY <2>3, <4>1, BucketHasRoom DEF Throttle
    <3>2. Budget!Refuse(c)
      BY <2>3, <3>1 DEF Throttle, Interval, Budget!Refuse, Budget!Answer
    <3>3. QED
      BY <3>2 DEF Budget!Next
  <2>4. ASSUME NEW c \in Clients, NEW route \in Routes, Unidentified(c, route)
        PROVE  Budget!Next
    <3>1. Budget!Fail(c)
      BY <2>4 DEF Unidentified, Interval, Budget!Fail, Budget!Answer
    <3>2. QED
      BY <3>1 DEF Budget!Next
  <2>5. CASE Tick
    BY <2>5 DEF Tick, Interval, Budget!Next, Budget!Pass
  <2>6. CASE UNCHANGED vars
    BY <2>6 DEF vars, Interval, Budget!budget
  <2>7. QED
    BY <2>1, <2>2, <2>3, <2>4, <2>5, <2>6 DEF Next, Call
<1>3. QED
  BY <1>1, <1>2, Invariance, BudgetHolds, PTL DEF Spec, BucketsKeepBudget, Budget!Spec
=============================================================================
