----------------------------- MODULE RateLimit -----------------------------
(***************************************************************************)
(* The token buckets of one process: store.go of internal/ratelimit.  A    *)
(* map of buckets and a slice of their keys, least recently used first,    *)
(* under one mutex; a janitor drops idle buckets.                          *)
(*                                                                         *)
(* Take holds the mutex throughout and is one step, and so is the body of  *)
(* sweep, which reads the clock only once it has the mutex.                *)
(***************************************************************************)
EXTENDS TokenBucket, Places, FiniteSets, SequencesExt

CONSTANTS
    Keys,       \* rate-limited keys
    Capacity,   \* max number of buckets
    IdleTTL,    \* ticks after which an unused bucket is dropped
    MaxTime,    \* bound on the clock
    Absent      \* no bucket, no answer

ASSUME LimitsAssumption ==
    /\ Capacity \in Nat \ {0} /\ IdleTTL \in Nat \ {0}
    /\ MaxTime \in Nat
ASSUME KeysAssumption == IsFiniteSet(Keys)

ASSUME AbsentAssumption == Absent \notin Bucket \cup Result

VARIABLES
    items,      \* items[k]: the bucket of k with its lastUsed, or Absent
    order,      \* keys, least recently used first
    jpc,        \* janitor: "select", "sweep" (it has a tick), "returned"
    closer,     \* Close(): "open", "closing" (stop is closed), "closed"
    (* History variables, read by no action. *)
    denied,     \* denied[k]: the last answer for k, if its bucket is there and
                \*   it was denied
    credit      \* credit[k]: what the limits that were in force entitle k to
                \*   since its bucket was made, and what its refills may have
                \*   been rounded up by, less what it was granted

janitor == <<jpc, closer>>
vars == <<now, items, order, janitor, denied, credit>>

Live == {k \in Keys : items[k] # Absent}

TypeOK ==
    /\ now \in Nat
    /\ items \in [Keys -> Bucket \cup {Absent}]
    /\ \A k \in Live : /\ items[k].tokens <= items[k].burst
                       /\ items[k].lastUsed <= now
    /\ order \in Seq(Keys)
    /\ jpc \in {"select", "sweep", "returned"}
    /\ closer \in {"open", "closing", "closed"}
    /\ denied \in [Keys -> Result \cup {Absent}]
    /\ credit \in [Keys -> Int]

Init ==
    /\ now = 1
    /\ items = [k \in Keys |-> Absent]
    /\ order = <<>>
    /\ jpc = "select"
    /\ closer = "open"
    /\ denied = [k \in Keys |-> Absent]
    /\ credit = [k \in Keys |-> 0]
----------------------------------------------------------------------------
(* A request with other limits than the bucket has. *)

resizeUnfilled(b, rate, burst, e) ==
    [b EXCEPT !.rate = rate, !.burst = burst, !.tokens = Min({@, burst})]

\* What was earned under the old limits comes first.
resize(b, rate, burst, e) ==
    [refill(b, e) EXCEPT !.rate = rate, !.burst = burst, !.tokens = Min({@, burst})]
----------------------------------------------------------------------------
(* Store.Take *)

touchForgotten(k) == order

touchAppends(k) == Append(order, k)

touchLocked(k) == Append(RemoveFirst(order, k), k)

\* How many keys evictIfNeededLocked drops from the front of the order: until
\* there is room in the map, or the order is empty.
Evicted ==
    Min({n \in 0..Len(order) :
           \/ n = Len(order)
           \/ Cardinality(Live \ ToSet(SubSeq(order, 1, n))) < Capacity})

used(b) == [b EXCEPT !.lastUsed = now]

Spent(a) == IF a.Allowed THEN a.cost ELSE 0

Denial(a) == IF a.Allowed THEN Absent ELSE a

\* Forgets the history of keys whose buckets are dropped.
Drop(f, ks, none) == [k \in Keys |-> IF k \in ks THEN none ELSE f[k]]

Answers(full, cost) == {Answer(full, cost, e) : e \in Roundings}

\* A key without a bucket gets a full one, at the expense of the keys that
\* were used longest ago.  Its refill adds nothing.
TakeNew(k, rate, burst, cost) ==
    /\ items[k] = Absent
    /\ \E a \in Answers(NewBucket(rate, burst), cost) :
         LET out == ToSet(SubSeq(order, 1, Evicted))
         IN  /\ items' = [Drop(items, out, Absent) EXCEPT
                            ![k] = used(After(NewBucket(rate, burst), cost))]
             /\ order' = Append(SubSeq(order, Evicted + 1, Len(order)), k)
             /\ denied' = [Drop(denied, out, Absent) EXCEPT ![k] = Denial(a)]
             /\ credit' = [Drop(credit, out, 0) EXCEPT ![k] = burst - Spent(a)]
    /\ UNCHANGED <<now, janitor>>

\* The bucket of k after the refill, with new limits if there are any.
Refills(k, rate, burst) ==
    LET changed == items[k].rate # rate \/ items[k].burst # burst
    IN  {IF changed THEN refill(resize(items[k], rate, burst, e), e)
                    ELSE refill(items[k], e) : e \in Roundings}

TakeKnown(k, rate, burst, cost) ==
    /\ items[k] # Absent
    /\ \E full \in Refills(k, rate, burst) : \E a \in Answers(full, cost) :
         /\ items' = [items EXCEPT ![k] = used(After(full, cost))]
         /\ denied' = [denied EXCEPT ![k] = Denial(a)]
         /\ credit' = [credit EXCEPT ![k] = (@ + Rounded(items[k])) - Spent(a)]
    /\ order' = touchLocked(k)
    /\ UNCHANGED <<now, janitor>>

Take(k, rate, burst, cost) ==
    TakeNew(k, rate, burst, cost) \/ TakeKnown(k, rate, burst, cost)
----------------------------------------------------------------------------
(* The janitor, the clock, Close. *)

JanitorTick ==
    /\ jpc = "select"
    /\ jpc' = "sweep"
    /\ UNCHANGED <<now, items, order, closer, denied, credit>>

IdleAtOnce == {k \in Live : now > items[k].lastUsed}

Idle == {k \in Live : now - items[k].lastUsed > IdleTTL}

sweep ==
    /\ jpc = "sweep"
    /\ jpc' = "select"
    /\ items' = Drop(items, Idle, Absent)
    /\ order' = Sublist(order, {i \in DOMAIN order : order[i] \in Live \ Idle})
    /\ denied' = Drop(denied, Idle, Absent)
    /\ credit' = Drop(credit, Idle, 0)
    /\ UNCHANGED <<now, closer>>

JanitorStop ==
    /\ jpc = "select" /\ closer = "closing"
    /\ jpc' = "returned"
    /\ UNCHANGED <<now, items, order, closer, denied, credit>>

CloseStop ==
    /\ closer = "open"
    /\ closer' = "closing"
    /\ UNCHANGED <<now, items, order, jpc, denied, credit>>

CloseReturn ==
    /\ closer = "closing" /\ jpc = "returned"
    /\ closer' = "closed"
    /\ UNCHANGED <<now, items, order, jpc, denied, credit>>

TimePasses ==
    /\ now < MaxTime
    /\ now' = now + 1
    /\ credit' = [k \in Keys |-> IF k \in Live THEN credit[k] + items[k].rate ELSE credit[k]]
    /\ UNCHANGED <<items, order, janitor, denied>>
----------------------------------------------------------------------------
Next ==
    \/ \E k \in Keys, rate \in Rates, burst \in Bursts, cost \in Costs : Take(k, rate, burst, cost)
    \/ JanitorTick \/ sweep \/ JanitorStop
    \/ CloseStop \/ CloseReturn
    \/ TimePasses

Spec == Init /\ [][Next]_vars
----------------------------------------------------------------------------
(* Properties. *)

\* The slice and the map hold the same keys, each once, and no more than the
\* capacity: evictIfNeededLocked trusts the slice to find a victim, touchLocked
\* and sweep rewrite it in place.
OrderMatchesMap ==
    /\ IsInjective(order) /\ ToSet(order) = Live
    /\ Cardinality(Live) <= Capacity

\* The slice is sorted by last use, so its front is the right victim, also
\* after sweeps have taken keys out of the middle.
OldestFirst ==
    \A i, j \in DOMAIN order : i < j => items[order[i]].lastUsed <= items[order[j]].lastUsed

\* No tokens are minted: since its bucket was made, a key has been granted no
\* more than the first burst plus what came in at the rates that were in force,
\* however its limits were changed and however seldom the bucket was refilled.
\* All that rounding adds to it is one Ulp for each refill.
NoMintedTokens == \A k \in Live : credit[k] >= items[k].tokens

\* The wait that a denied caller is told is right to the millisecond, whichever
\* way its computation and the next refill are rounded: a millisecond after it
\* is over Take grants the same cost for certain, and more than a millisecond
\* before it is over Take cannot.  At the moment itself rounding may decide.
\* This takes rates whose millisecond is worth both roundings.  A cost beyond
\* the burst, or a rate of zero, is never granted.
RetryWithinMs ==
    \A k \in Keys : denied[k] # Absent =>
        LET b    == items[k]
            d    == denied[k]
            then == b.lastRefill
            granted(e) == Grants(refill(b, e), d.cost)
        IN  IF b.rate = 0 \/ d.cost > b.burst
            THEN \A e \in Roundings : ~granted(e)
            ELSE b.rate * Ms >= 2 * Ulp =>
                   /\ now >= then + (d.RetryAfterMs + 1) * Ms => \A e \in Roundings : granted(e)
                   /\ now <= then + (d.RetryAfterMs - 2) * Ms => \A e \in Roundings : ~granted(e)

\* The sweep gives nothing away where the idle time is long enough for the
\* bucket to fill, rounding included: what it forgets is a full bucket, the
\* same as a new one.
SweepForgetsOnlyFull ==
    [][jpc = "sweep" /\ jpc' = "select" =>
         \A k \in Live \ Live' :
             items[k].rate * IdleTTL >= items[k].burst + Ulp =>
               \A e \in Roundings : refill(items[k], e).tokens = items[k].burst]_vars
============================================================================
