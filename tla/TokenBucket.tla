---------------------------- MODULE TokenBucket ----------------------------
(***************************************************************************)
(* One token bucket: internal/ratelimit/bucket.go.                         *)
(*                                                                         *)
(* The code computes in float64.  Tokens are counted here in grains, small *)
(* enough for a tick of the clock to refill a whole number of them, and    *)
(* what the rounding of a refill or of a wait comes to is any whole number *)
(* of grains up to Ulp, either way; 0 would be exact arithmetic.  A cost   *)
(* that the bucket holds is subtracted exactly, as float64 does for whole  *)
(* tokens.  The wait is rounded once more, by the code itself, to whole    *)
(* milliseconds of Ms ticks.  The arguments are what parseRateLimitBody    *)
(* lets through: rate and burst not negative, cost positive.               *)
(***************************************************************************)
EXTENDS Integers, FiniteSetsExt

CONSTANTS
    Rates,      \* tokens per tick that a request may ask for
    Bursts,     \* bucket sizes that a request may ask for
    Costs,      \* tokens that a request may cost
    Ms,         \* ticks in a millisecond
    Ulp         \* the most that one rounding comes to, in grains

ASSUME ParamsAssumption ==
    /\ Rates \subseteq Nat /\ Bursts \subseteq Nat /\ Costs \subseteq Nat \ {0}
    /\ Ms \in Nat \ {0} /\ Ulp \in Nat

VARIABLE now    \* clock.Now()

Never == 2147483647     \* math.MaxInt32

\* A bucket, with the lastUsed that the store keeps beside it.
Bucket == [tokens: Nat, lastRefill: Nat, rate: Rates, burst: Bursts, lastUsed: Nat]

\* The answer to a Take, with what was asked for; Remaining is the bucket's tokens.
Result == [cost: Costs, Allowed: BOOLEAN, RetryAfterMs: Nat]

NewBucket(rate, burst) ==
    [tokens |-> burst, lastRefill |-> now, rate |-> rate, burst |-> burst, lastUsed |-> now]

\* What the rounding of a sum or a quotient may come to.
Roundings == -Ulp..Ulp

\* Whether a refill of b adds anything.
Flows(b) == b.rate # 0 /\ now > b.lastRefill

\* What a refill of b may be rounded up by.
Rounded(b) == IF Flows(b) THEN Ulp ELSE 0

\* Rounding takes nothing from a sum with something that is not negative.
sum(b, e) == Max({b.tokens, b.tokens + (now - b.lastRefill) * b.rate + e})

refillUncapped(b, e) ==
    [b EXCEPT !.tokens = IF Flows(b) THEN sum(b, e) ELSE @, !.lastRefill = now]

\* The refill of b, when its rounding comes to e.
refill(b, e) ==
    [b EXCEPT !.tokens = IF Flows(b) THEN Min({b.burst, sum(b, e)}) ELSE @,
              !.lastRefill = now]

\* Whole milliseconds until deficit tokens have come in, rounded up.
ceilMsDown(deficit, rate) == deficit \div (rate * Ms)

ceilMs(deficit, rate) == (deficit + rate * Ms - 1) \div (rate * Ms)

\* The wait, when the rounding of the quotient comes to e.  A cost beyond the
\* burst waits for a full bucket, in vain.
retryAfterMs(tokens, cost, rate, burst, e) ==
    LET deficit == Min({cost, burst}) - tokens
    IN  IF cost > burst /\ tokens >= burst THEN Never
        ELSE IF deficit <= 0 THEN 0
        ELSE IF rate = 0 THEN Never
        ELSE Max({1, ceilMs(deficit + e, rate)})

\* Whether Take grants the cost, given a bucket that has been refilled.
Grants(b, cost) == cost <= b.burst /\ b.tokens >= cost

\* Take leaves the bucket so, given what the refill has made of it, ...
AfterUnchecked(full, cost) == [full EXCEPT !.tokens = @ - cost]

After(full, cost) ==
    IF Grants(full, cost) THEN [full EXCEPT !.tokens = @ - cost] ELSE full

\* ... and answers so.
Answer(full, cost, e) ==
    LET ok == Grants(full, cost)
    IN  [cost |-> cost, Allowed |-> ok,
         RetryAfterMs |-> IF ok THEN 0
                          ELSE retryAfterMs(full.tokens, cost, full.rate, full.burst, e)]
============================================================================
