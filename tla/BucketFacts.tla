---------------------------- MODULE BucketFacts ----------------------------
(***************************************************************************)
(* What refill and Take do to a token bucket, for every rate, burst and    *)
(* cost.                                                                   *)
(***************************************************************************)
EXTENDS TokenBucket, ListFacts, TLAPS

\* What comes in while d ticks pass.
LEMMA Inflow ==
    ASSUME NEW d \in Nat, NEW rate \in Nat
    PROVE  d * rate \in Nat
OBVIOUS

\* Products of sums.
LEMMA Distributes ==
    ASSUME NEW a \in Int, NEW b \in Int, NEW c \in Int
    PROVE  (a + b) * c = a * c + b * c /\ a * c \in Int /\ b * c \in Int
OBVIOUS

\* What rounding comes to is a number.
LEMMA RoundingProperties ==
    /\ Ulp \in Nat
    /\ \A e \in Roundings : e \in Int /\ -Ulp <= e /\ e <= Ulp
    /\ 0 \in Roundings /\ Ulp \in Roundings /\ -Ulp \in Roundings
<1>1. Ulp \in Nat
  BY ParamsAssumption
<1> QED
  BY <1>1 DEF Roundings

\* How full a bucket is after a refill.
LEMMA RefilledTokens ==
    ASSUME NEW b \in Bucket, NEW e \in Roundings, NEW d \in Nat, d = now - b.lastRefill,
           Flows(b)
    PROVE  /\ d * b.rate \in Nat
           /\ LET came == b.tokens + d * b.rate + e
                  s == IF b.tokens <= came THEN came ELSE b.tokens
              IN  refill(b, e).tokens = IF b.burst <= s THEN b.burst ELSE s
<1>1. b.tokens \in Nat /\ b.rate \in Nat /\ b.burst \in Nat /\ e \in Int
  BY ParamsAssumption, RoundingProperties DEF Bucket
<1>2. PICK x \in Nat : x = d * b.rate
  BY <1>1, Inflow
<1> DEFINE came == b.tokens + x + e
           s == IF b.tokens <= came THEN came ELSE b.tokens
<1>3. came \in Int
  BY <1>1
<1>4. sum(b, e) = Max({b.tokens, came})
  BY <1>2 DEF sum
<1> HIDE DEF came
<1>5. sum(b, e) = s
  BY <1>1, <1>3, <1>4, MaxOfTwo
<1>6. s \in Int
  BY <1>1, <1>3
<1>7. refill(b, e).tokens = Min({b.burst, s})
  BY <1>5 DEF refill, Bucket
<1> HIDE DEF s
<1>8. Min({b.burst, s}) = IF b.burst <= s THEN b.burst ELSE s
  BY <1>1, <1>6, MinOfTwo
<1> QED
  BY <1>2, <1>7, <1>8 DEF s, came

\* A refill adds no more than what came in and its rounding, takes nothing away
\* and never fills a bucket over its brim.
LEMMA RefillProperties ==
    ASSUME NEW b \in Bucket, now \in Nat, b.lastRefill <= now, NEW e \in Roundings
    PROVE  LET f == refill(b, e)
           IN  /\ f \in Bucket /\ f.lastRefill = now
               /\ f.rate = b.rate /\ f.burst = b.burst /\ f.lastUsed = b.lastUsed
               /\ f.tokens <= b.tokens + (now - b.lastRefill) * b.rate + Rounded(b)
               /\ b.tokens <= b.burst => f.tokens <= b.burst /\ b.tokens <= f.tokens
<1> DEFINE f == refill(b, e)
<1>1. /\ b.tokens \in Nat /\ b.lastRefill \in Nat /\ b.rate \in Nat /\ b.burst \in Nat /\ b.lastUsed \in Nat
      /\ b.rate \in Rates /\ b.burst \in Bursts
  BY ParamsAssumption DEF Bucket
<1>2. PICK d \in Nat : d = now - b.lastRefill
  BY <1>1
<1>3. PICK x \in Nat : x = d * b.rate
  BY <1>1, Inflow
<1>4. Ulp \in Nat /\ e \in Int /\ e <= Ulp
  BY RoundingProperties
<1>5. /\ f.tokens \in Nat /\ f.tokens <= b.tokens + x + Rounded(b)
      /\ b.tokens <= b.burst => f.tokens <= b.burst /\ b.tokens <= f.tokens
  <2>1. CASE Flows(b)
    <3> DEFINE s == IF b.tokens <= b.tokens + x + e THEN b.tokens + x + e ELSE b.tokens
    <3>1. f.tokens = IF b.burst <= s THEN b.burst ELSE s
      BY <1>2, <1>3, <2>1, RefilledTokens
    <3>2. Rounded(b) = Ulp
      BY <2>1 DEF Rounded
    <3>3. s \in Nat /\ b.tokens <= s /\ s <= b.tokens + x + Ulp
      BY <1>1, <1>4
    <3> HIDE DEF s, f
    <3> QED
      BY <1>1, <1>4, <3>1, <3>2, <3>3
  <2>2. CASE ~Flows(b)
    <3>1. f.tokens = b.tokens /\ Rounded(b) = 0
      BY <2>2 DEF refill, Rounded, Bucket
    <3> HIDE DEF f
    <3> QED
      BY <1>1, <3>1
  <2> QED
    BY <2>1, <2>2
<1>6. PICK t : t = IF Flows(b) THEN Min({b.burst, sum(b, e)}) ELSE b.tokens
  OBVIOUS
<1>7. /\ f = [tokens |-> t, lastRefill |-> now, rate |-> b.rate, burst |-> b.burst,
              lastUsed |-> b.lastUsed]
      /\ f.tokens = t
  <2>1. f = [b EXCEPT !.tokens = t, !.lastRefill = now]
    BY <1>6 DEF refill
  <2> HIDE DEF f
  <2> QED
    BY <2>1 DEF Bucket
<1>8. t \in Nat
  BY <1>5, <1>7
<1> HIDE DEF f
<1>9. /\ f \in Bucket /\ f.lastRefill = now
      /\ f.rate = b.rate /\ f.burst = b.burst /\ f.lastUsed = b.lastUsed
  BY <1>1, <1>7, <1>8 DEF Bucket
<1> QED
  BY <1>2, <1>3, <1>5, <1>9 DEF f

\* Take grants a cost only out of what is there after the refill.
LEMMA TakeProperties ==
    ASSUME NEW full \in Bucket, NEW cost \in Costs
    PROVE  LET a == After(full, cost)
           IN  /\ a \in Bucket /\ a.lastRefill = full.lastRefill
               /\ a.rate = full.rate /\ a.burst = full.burst
               /\ a.tokens + (IF Grants(full, cost) THEN cost ELSE 0) = full.tokens
               /\ a.tokens <= full.tokens
               /\ Grants(full, cost) \in BOOLEAN
<1> DEFINE a == After(full, cost)
<1>1. full.tokens \in Nat /\ cost \in Nat
  BY ParamsAssumption DEF Bucket
<1>2. Grants(full, cost) \in BOOLEAN
  BY DEF Grants
<1>3. CASE Grants(full, cost)
  <2>1. full.tokens - cost \in Nat
    BY <1>1, <1>3 DEF Grants
  <2>2. /\ a \in Bucket /\ a.tokens = full.tokens - cost /\ a.lastRefill = full.lastRefill
        /\ a.rate = full.rate /\ a.burst = full.burst
    BY <1>3, <2>1 DEF After, Bucket
  <2> HIDE DEF a
  <2> QED
    BY <1>1, <1>2, <1>3, <2>2 DEF a
<1>4. CASE ~Grants(full, cost)
  <2>1. a = full
    BY <1>4 DEF After
  <2> QED
    BY <1>1, <1>2, <1>4, <2>1
<1> QED
  BY <1>3, <1>4
----------------------------------------------------------------------------
(* The wait. *)

\* Rounding up.
LEMMA CeilProperties ==
    ASSUME NEW a \in Int, NEW d \in Nat \ {0}
    PROVE  LET q == (a + d - 1) \div d
           IN  q \in Int /\ q * d >= a /\ (q - 1) * d < a
<1> DEFINE n == a + d - 1
           q == n \div d
<1>1. n \in Int
  OBVIOUS
<1>2. q \in Int /\ d * q <= n /\ n < d * q + d
  <2>1. q \in Int /\ n = d * q + (n % d) /\ n % d \in 0 .. d - 1
    BY <1>1
  <2> QED
    BY <1>1, <2>1
<1> QED
  BY <1>2

\* Products of natural numbers.
LEMMA GrowsWith ==
    ASSUME NEW a \in Int, NEW b \in Int, NEW c \in Nat, a <= b
    PROVE  a * c <= b * c /\ a * c \in Int /\ b * c \in Int
<1>1. b - a \in Nat
  OBVIOUS
<1>2. (b - a) * c \in Nat
  BY <1>1, Inflow
<1>3. b * c = a * c + (b - a) * c
  OBVIOUS
<1> QED
  BY <1>2, <1>3

\* The wait is a number of milliseconds.
LEMMA RetryType ==
    ASSUME NEW tokens \in Nat, NEW cost \in Costs, NEW rate \in Rates, NEW burst \in Bursts,
           NEW e \in Roundings
    PROVE  retryAfterMs(tokens, cost, rate, burst, e) \in Nat
<1>0. cost \in Nat /\ rate \in Nat /\ burst \in Nat /\ Ms \in Nat \ {0} /\ e \in Int
  BY ParamsAssumption, RoundingProperties
<1> DEFINE deficit == Min({cost, burst}) - tokens
<1>1. deficit \in Int
  BY <1>0, MinOfTwo
<1> HIDE DEF deficit
<1>2. ASSUME rate # 0
      PROVE  Max({1, ceilMs(deficit + e, rate)}) \in Nat
  <2>1. PICK d \in Nat \ {0} : d = rate * Ms
    BY <1>0, <1>2
  <2>2. PICK n \in Int : n = deficit + e + d - 1
    BY <1>0, <1>1
  <2>3. n \div d \in Int
    OBVIOUS
  <2>4. ceilMs(deficit + e, rate) \in Int
    BY <2>1, <2>2, <2>3 DEF ceilMs
  <2> QED
    BY <2>4, MaxOfTwo
<1>3. Never \in Nat
  BY DEF Never
<1>4. retryAfterMs(tokens, cost, rate, burst, e) =
        IF cost > burst /\ tokens >= burst THEN Never
        ELSE IF deficit <= 0 THEN 0
        ELSE IF rate = 0 THEN Never
        ELSE Max({1, ceilMs(deficit + e, rate)})
  BY DEF retryAfterMs, deficit
<1> QED
  BY <1>2, <1>3, <1>4

\* The answer to a take, and the bucket it is about.
LEMMA AnswerProperties ==
    ASSUME NEW full \in Bucket, NEW cost \in Costs, NEW e \in Roundings
    PROVE  LET a == Answer(full, cost, e)
           IN  /\ a \in Result /\ a.cost = cost /\ a.Allowed = Grants(full, cost)
               /\ ~a.Allowed => /\ After(full, cost) = full
                                /\ a.RetryAfterMs = retryAfterMs(full.tokens, cost, full.rate, full.burst, e)
<1> DEFINE ok == Grants(full, cost)
           w == IF ok THEN 0 ELSE retryAfterMs(full.tokens, cost, full.rate, full.burst, e)
<1>1. Answer(full, cost, e) = [cost |-> cost, Allowed |-> ok, RetryAfterMs |-> w]
  BY DEF Answer
<1>2. ok \in BOOLEAN
  BY DEF Grants
<1>3. ~ok => After(full, cost) = full
  BY DEF After
<1>4. w \in Nat
  <2>1. full.tokens \in Nat /\ full.rate \in Rates /\ full.burst \in Bursts
    BY DEF Bucket
  <2> QED
    BY <2>1, RetryType
<1>5. ~ok => w = retryAfterMs(full.tokens, cost, full.rate, full.burst, e)
  OBVIOUS
<1> HIDE DEF w, ok
<1>6. Answer(full, cost, e) \in Result
  BY <1>1, <1>2, <1>4 DEF Result
<1>7. /\ Answer(full, cost, e).Allowed = ok /\ Answer(full, cost, e).RetryAfterMs = w
      /\ Answer(full, cost, e).cost = cost
  BY <1>1
<1> QED
  BY <1>2, <1>3, <1>5, <1>6, <1>7 DEF ok
============================================================================
