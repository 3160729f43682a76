-------------------------- MODULE RateLimitProofs --------------------------
(***************************************************************************)
(* Proofs about the bucket store, for every number of keys, capacity, rate, *)
(* burst and cost.                                                         *)
(***************************************************************************)
EXTENDS RateLimit, BucketFacts

(* The inductive invariant. *)

\* Whoever uses a bucket refills it first.
Refilled == \A k \in Live : items[k].lastRefill = items[k].lastUsed

\* What a bucket holds or would hold if it had no brim.
Owed(b) == b.tokens + (now - b.lastRefill) * b.rate

\* The history counts at least what a bucket has yet to be credited with.
Entitled == \A k \in Live : credit[k] >= Owed(items[k])

\* Answer d told the wait of bucket b, rounded one way or another.
Told(b, d) ==
    \E e \in Roundings : d.RetryAfterMs = retryAfterMs(b.tokens, d.cost, b.rate, b.burst, e)

\* A denial is remembered as long as the bucket is as the denial left it.
Waits ==
    \A k \in Keys : denied[k] # Absent =>
        items[k] # Absent /\ ~Grants(items[k], denied[k].cost) /\ Told(items[k], denied[k])

Inv == TypeOK /\ OrderMatchesMap /\ OldestFirst /\ Refilled /\ Entitled /\ Waits

\* What the invariant says of one bucket.
LEMMA LiveFacts ==
    ASSUME Inv, NEW k \in Keys, items[k] # Absent
    PROVE  /\ k \in Live /\ items[k] \in Bucket
           /\ items[k].tokens <= items[k].burst
           /\ items[k].lastUsed <= now
           /\ items[k].lastRefill = items[k].lastUsed
           /\ credit[k] >= Owed(items[k])
           /\ now \in Nat /\ credit[k] \in Int
           /\ items[k].tokens \in Nat /\ items[k].burst \in Nat /\ items[k].rate \in Nat
           /\ items[k].lastUsed \in Nat
           /\ items[k].burst \in Bursts /\ items[k].rate \in Rates
<1>1. k \in Live
  BY DEF Live
<1>2. items[k] \in Bucket
  BY DEF Inv, TypeOK
<1> QED
  BY <1>1, <1>2, ParamsAssumption DEF Inv, TypeOK, Refilled, Entitled, Bucket

\* Initially there are no buckets.
LEMMA InvInit == Init => Inv
<1> SUFFICES ASSUME Init PROVE Inv
  OBVIOUS
<1>1. Live = {}
  BY DEF Init, Live
<1>2. IsInjective(order) /\ ToSet(order) = {} /\ order \in Seq(Keys) /\ DOMAIN order = {}
  BY DEF Init, IsInjective, ToSet
<1>3. TypeOK
  BY <1>1, <1>2 DEF Init, TypeOK
<1>4. OrderMatchesMap
  BY <1>1, <1>2, FS_EmptySet, LimitsAssumption DEF OrderMatchesMap
<1>5. OldestFirst /\ Refilled /\ Entitled
  BY <1>1, <1>2 DEF OldestFirst, Refilled, Entitled
<1>6. Waits
  BY DEF Init, Waits
<1> QED
  BY <1>3, <1>4, <1>5, <1>6 DEF Inv
----------------------------------------------------------------------------
(* Take. *)

\* What a take that is answered with a out of the refilled bucket does, apart
\* from the order: k gets what is left of it, the keys in out lose their
\* buckets, and k was entitled to c.
Served(k, full, a, out, c) ==
    /\ items' = [x \in Keys |-> IF x = k THEN used(After(full, a.cost))
                                ELSE IF x \in out THEN Absent ELSE items[x]]
    /\ denied' = [x \in Keys |-> IF x = k THEN Denial(a)
                                 ELSE IF x \in out THEN Absent ELSE denied[x]]
    /\ credit' = [x \in Keys |-> IF x = k THEN c - Spent(a)
                                 ELSE IF x \in out THEN 0 ELSE credit[x]]
    /\ UNCHANGED <<now, janitor>>

\* The order after it: what is left of the order, and k.
Requeued(k, out) ==
    \E r \in Seq(Keys) : /\ order' = Append(r, k) /\ IsInjective(r) /\ Embeds(r, order)
                         /\ k \notin ToSet(r) /\ ToSet(r) = Live \ (out \cup {k})

\* What is left of a bucket after a take.
LEMMA UsedProperties ==
    ASSUME NEW full \in Bucket, now \in Nat, full.lastRefill = now, full.tokens <= full.burst,
           NEW cost \in Costs, NEW a \in Answers(full, cost)
    PROVE  LET u == used(After(full, cost))
           IN  /\ a.cost = cost
               /\ u \in Bucket /\ u # Absent
               /\ u.tokens <= u.burst /\ u.lastRefill = now /\ u.lastUsed = now
               /\ Spent(a) \in Nat /\ u.tokens + Spent(a) = full.tokens
               /\ Denial(a) \in Result \cup {Absent}
               /\ Denial(a) # Absent => ~Grants(u, Denial(a).cost) /\ Told(u, Denial(a))
<1> DEFINE f == After(full, cost)
           u == used(f)
<1>0. cost \in Nat /\ full.tokens \in Nat /\ full.burst \in Nat
  BY ParamsAssumption DEF Bucket
<1>1. /\ f \in Bucket /\ f.lastRefill = now /\ f.rate = full.rate /\ f.burst = full.burst
      /\ f.tokens + (IF Grants(full, cost) THEN cost ELSE 0) = full.tokens
      /\ f.tokens <= full.tokens
      /\ Grants(full, cost) \in BOOLEAN
  BY TakeProperties
<1>2. PICK e \in Roundings : a = Answer(full, cost, e)
  BY DEF Answers
<1>3. /\ a \in Result /\ a.cost = cost /\ a.Allowed = Grants(full, cost)
      /\ ~a.Allowed => /\ f = full
                       /\ a.RetryAfterMs = retryAfterMs(full.tokens, cost, full.rate, full.burst, e)
  BY <1>2, AnswerProperties
<1>4. u = [f EXCEPT !.lastUsed = now]
  BY DEF used
<1> HIDE DEF f, u
<1>5. /\ u \in Bucket /\ u.tokens = f.tokens /\ u.lastRefill = now /\ u.rate = f.rate
      /\ u.burst = f.burst /\ u.lastUsed = now /\ f.tokens \in Nat
  BY <1>1, <1>4 DEF Bucket
<1>6. u # Absent
  BY <1>5, AbsentAssumption
<1>7. Spent(a) = (IF a.Allowed THEN cost ELSE 0) /\ Spent(a) \in Nat
  BY <1>0, <1>3 DEF Spent
<1>8. u.tokens + Spent(a) = full.tokens /\ u.tokens <= u.burst
  BY <1>0, <1>1, <1>3, <1>5, <1>7
<1>9. CASE a.Allowed
  <2>1. Denial(a) = Absent
    BY <1>9 DEF Denial
  <2> QED
    BY <1>1, <1>3, <1>5, <1>6, <1>7, <1>8, <2>1 DEF f, u
<1>10. CASE ~a.Allowed
  <2>1. Denial(a) = a
    BY <1>10 DEF Denial
  <2>2. ~Grants(u, a.cost)
    BY <1>1, <1>3, <1>5, <1>10 DEF Grants
  <2>3. Told(u, a)
    BY <1>1, <1>3, <1>5, <1>10 DEF Told
  <2> QED
    BY <1>1, <1>3, <1>5, <1>6, <1>7, <1>8, <1>10, <2>1, <2>2, <2>3 DEF f, u
<1> QED
  BY <1>9, <1>10

\* A take keeps the invariant.
LEMMA ServedKeeps ==
    ASSUME Inv, NEW k \in Keys, NEW full \in Bucket, full.lastRefill = now,
           full.tokens <= full.burst, NEW cost \in Costs, NEW a \in Answers(full, cost),
           NEW out \in SUBSET Keys, NEW c \in Int, c >= full.tokens,
           Served(k, full, a, out, c), Requeued(k, out),
           Cardinality((Live \ out) \cup {k}) <= Capacity
    PROVE  Inv'
<1> DEFINE u == used(After(full, cost))
<1>0. now \in Nat /\ now' = now /\ jpc' = jpc /\ closer' = closer
  BY DEF Inv, TypeOK, Served, janitor
<1>1. /\ a.cost = cost
      /\ u \in Bucket /\ u # Absent
      /\ u.tokens <= u.burst /\ u.lastRefill = now /\ u.lastUsed = now
      /\ Spent(a) \in Nat /\ u.tokens + Spent(a) = full.tokens
      /\ Denial(a) \in Result \cup {Absent}
      /\ Denial(a) # Absent => ~Grants(u, Denial(a).cost) /\ Told(u, Denial(a))
  BY <1>0, UsedProperties
<1>2. PICK du \in Result \cup {Absent} : du = Denial(a)
  BY <1>1
<1>3. PICK sp \in Nat : sp = Spent(a)
  BY <1>1
<1>4. /\ items' = [x \in Keys |-> IF x = k THEN u ELSE IF x \in out THEN Absent ELSE items[x]]
      /\ denied' = [x \in Keys |-> IF x = k THEN du ELSE IF x \in out THEN Absent ELSE denied[x]]
      /\ credit' = [x \in Keys |-> IF x = k THEN c - sp ELSE IF x \in out THEN 0 ELSE credit[x]]
  BY <1>1, <1>2, <1>3 DEF Served
<1>5. /\ u.tokens \in Nat /\ u.burst \in Nat /\ u.rate \in Nat
      /\ u.tokens + sp <= c
  <2>1. /\ u.tokens \in Nat /\ u.burst \in Nat /\ u.rate \in Nat
    BY <1>1, ParamsAssumption DEF Bucket
  <2> QED
    BY <1>1, <1>3, <2>1
<1> HIDE DEF u
<1>6. Live' = (Live \ out) \cup {k}
  BY <1>1, <1>4 DEF Live
<1>7. ASSUME NEW x \in Live', x # k
      PROVE  /\ x \in Live /\ items'[x] = items[x] /\ denied'[x] = denied[x] /\ credit'[x] = credit[x]
             /\ x \in Keys
  BY <1>4, <1>6, <1>7 DEF Live
<1>8. items'[k] = u /\ denied'[k] = du /\ credit'[k] = c - sp
  BY <1>4
<1>9. PICK r \in Seq(Keys) : /\ order' = Append(r, k) /\ IsInjective(r) /\ Embeds(r, order)
                             /\ k \notin ToSet(r) /\ ToSet(r) = Live \ (out \cup {k})
  BY DEF Requeued
<1>10. /\ order' \in Seq(Keys) /\ IsInjective(order') /\ ToSet(order') = ToSet(r) \cup {k}
       /\ Len(r) \in Nat /\ Len(order') = Len(r) + 1
       /\ \A j \in 1 .. Len(r) : order'[j] = r[j]
       /\ order'[Len(r) + 1] = k
  BY <1>9, AppendKeeps
<1>11. TypeOK'
  <2>1. items' \in [Keys -> Bucket \cup {Absent}]
    BY <1>1, <1>4 DEF Inv, TypeOK
  <2>2. ASSUME NEW x \in Live'
        PROVE  items'[x].tokens <= items'[x].burst /\ items'[x].lastUsed <= now'
    <3>1. CASE x = k
      BY <1>0, <1>1, <1>8, <3>1
    <3>2. CASE x # k
      BY <1>0, <1>7, <3>2 DEF Inv, TypeOK
    <3> QED
      BY <3>1, <3>2
  <2>3. denied' \in [Keys -> Result \cup {Absent}]
    BY <1>4 DEF Inv, TypeOK
  <2>4. credit' \in [Keys -> Int]
    <3>1. c - sp \in Int
      OBVIOUS
    <3> QED
      BY <1>4, <3>1 DEF Inv, TypeOK
  <2>5. jpc' \in {"select", "sweep", "returned"} /\ closer' \in {"open", "closing", "closed"}
    BY <1>0 DEF Inv, TypeOK
  <2> QED
    BY <1>0, <1>10, <2>1, <2>2, <2>3, <2>4, <2>5 DEF TypeOK
<1>12. OrderMatchesMap'
  <2>1. ToSet(order') = Live'
    BY <1>6, <1>9, <1>10
  <2>2. Cardinality(Live') <= Capacity
    BY <1>6
  <2> QED
    BY <1>10, <2>1, <2>2 DEF OrderMatchesMap
<1>13. OldestFirst'
  <2> SUFFICES ASSUME NEW i \in DOMAIN order', NEW j \in DOMAIN order', i < j
               PROVE  items'[order'[i]].lastUsed <= items'[order'[j]].lastUsed
    BY DEF OldestFirst
  <2>1. i \in 1 .. Len(r) + 1 /\ j \in 1 .. Len(r) + 1
    BY <1>10, LenProperties
  <2>2. i \in 1 .. Len(r) /\ order'[i] = r[i]
    BY <1>10, <2>1
  <2>3. DOMAIN r = 1 .. Len(r)
    BY <1>9, LenProperties
  <2>4. \A n \in 1 .. Len(r) : r[n] \in ToSet(r)
    BY <2>3 DEF ToSet
  <2>5. order'[i] \in Live' /\ order'[i] # k
    BY <1>6, <1>9, <2>2, <2>4
  <2>6. CASE j = Len(r) + 1
    <3>1. order'[j] = k
      BY <1>10, <2>6
    <3>2. items'[order'[i]].lastUsed <= now'
      BY <1>11, <2>5 DEF TypeOK
    <3> QED
      BY <1>0, <1>1, <1>8, <3>1, <3>2
  <2>7. CASE j \in 1 .. Len(r)
    <3>1. order'[j] = r[j]
      BY <1>10, <2>7
    <3>2. order'[j] \in Live' /\ order'[j] # k
      BY <1>6, <1>9, <2>4, <2>7, <3>1
    <3>3. PICK m, n \in DOMAIN order : m < n /\ r[i] = order[m] /\ r[j] = order[n]
      BY <1>9, <2>2, <2>3, <2>7 DEF Embeds
    <3>4. items[order[m]].lastUsed <= items[order[n]].lastUsed
      BY <3>3 DEF Inv, OldestFirst
    <3> QED
      BY <1>7, <2>2, <2>5, <3>1, <3>2, <3>3, <3>4
  <2> QED
    BY <1>10, <2>1, <2>6, <2>7
<1>14. Refilled'
  <2> SUFFICES ASSUME NEW x \in Live' PROVE items'[x].lastRefill = items'[x].lastUsed
    BY DEF Refilled
  <2>1. CASE x = k
    BY <1>1, <1>8, <2>1
  <2>2. CASE x # k
    BY <1>7, <2>2 DEF Inv, Refilled
  <2> QED
    BY <2>1, <2>2
<1>15. Entitled'
  <2> SUFFICES ASSUME NEW x \in Live'
               PROVE  credit'[x] >= items'[x].tokens + (now' - items'[x].lastRefill) * items'[x].rate
    BY DEF Entitled, Owed
  <2>1. CASE x = k
    <3>1. (now' - items'[x].lastRefill) * items'[x].rate = 0
      BY <1>0, <1>1, <1>5, <1>8, <2>1
    <3> QED
      BY <1>5, <1>8, <2>1, <3>1
  <2>2. CASE x # k
    BY <1>0, <1>7, <2>2 DEF Inv, Entitled, Owed
  <2> QED
    BY <2>1, <2>2
<1>16. Waits'
  <2> SUFFICES ASSUME NEW x \in Keys, denied'[x] # Absent
               PROVE  /\ items'[x] # Absent
                      /\ ~Grants(items'[x], denied'[x].cost)
                      /\ Told(items'[x], denied'[x])
    BY DEF Waits, Told
  <2>1. CASE x = k
    BY <1>1, <1>2, <1>8, <2>1
  <2>2. CASE x # k
    <3>1. denied'[x] = denied[x] /\ items'[x] = items[x]
      BY <1>4, <2>2
    <3> QED
      BY <3>1 DEF Inv, Waits
  <2> QED
    BY <2>1, <2>2
<1> QED
  BY <1>11, <1>12, <1>13, <1>14, <1>15, <1>16 DEF Inv

\* A key without a bucket: room is made for it.
LEMMA TakeNewKeeps ==
    ASSUME Inv, NEW k \in Keys, NEW rate \in Rates, NEW burst \in Bursts, NEW cost \in Costs,
           TakeNew(k, rate, burst, cost)
    PROVE  Inv'
<1> DEFINE b == NewBucket(rate, burst)
           out == ToSet(SubSeq(order, 1, Evicted))
<1>a. PICK a \in Answers(b, cost) :
        /\ items' = [Drop(items, out, Absent) EXCEPT ![k] = used(After(b, cost))]
        /\ order' = Append(SubSeq(order, Evicted + 1, Len(order)), k)
        /\ denied' = [Drop(denied, out, Absent) EXCEPT ![k] = Denial(a)]
        /\ credit' = [Drop(credit, out, 0) EXCEPT ![k] = burst - Spent(a)]
  BY DEF TakeNew
<1>0. /\ now \in Nat /\ order \in Seq(Keys) /\ IsInjective(order) /\ ToSet(order) = Live
      /\ k \notin Live /\ rate \in Nat /\ burst \in Nat
  BY ParamsAssumption DEF Inv, TypeOK, OrderMatchesMap, TakeNew, Live
<1>1. Len(order) \in Nat /\ DOMAIN order = 1 .. Len(order)
  BY <1>0, LenProperties
<1>2. /\ Evicted \in 0 .. Len(order)
      /\ \/ Evicted = Len(order)
         \/ Cardinality(Live \ out) < Capacity
  <2> DEFINE E == {n \in 0 .. Len(order) :
                     \/ n = Len(order)
                     \/ Cardinality(Live \ ToSet(SubSeq(order, 1, n))) < Capacity}
  <2>1. E \in SUBSET Int /\ E # {}
    BY <1>1
  <2>2. IsFiniteSet(E)
    <3>1. IsFiniteSet(0 .. Len(order))
      BY <1>1, FS_Interval
    <3>2. E \subseteq 0 .. Len(order)
      OBVIOUS
    <3> HIDE DEF E
    <3> QED
      BY <3>1, <3>2, FS_Subset
  <2>3. Evicted = Min(E)
    BY DEF Evicted
  <2>4. Evicted \in E
    <3> HIDE DEF E
    <3> QED
      BY <2>1, <2>2, <2>3, LeastIsMin
  <2> QED
    BY <2>4
<1> HIDE DEF out
<1>3. PICK n \in 0 .. Len(order) : n = Evicted
  BY <1>2
<1>4. PICK r : r = SubSeq(order, Evicted + 1, Len(order))
  OBVIOUS
<1>5. /\ r \in Seq(Keys) /\ IsInjective(r) /\ Embeds(r, order)
      /\ ToSet(r) = Live \ out
      /\ out = {order[i] : i \in 1 .. Evicted}
  BY <1>0, <1>3, <1>4, DropFrontKeeps DEF out
<1>6. out \in SUBSET Keys
  <2>1. \A i \in 1 .. Evicted : order[i] \in Keys
    BY <1>0, <1>1, <1>3, ElementOfSeq
  <2> QED
    BY <1>5, <2>1
<1>7. IsFiniteSet(Live) /\ IsFiniteSet(Live \ out)
  BY KeysAssumption, FS_Subset DEF Live
<1>8. Cardinality((Live \ out) \cup {k}) <= Capacity
  <2>1. Cardinality((Live \ out) \cup {k}) = Cardinality(Live \ out) + 1
    <3>1. k \notin Live \ out
      BY <1>0
    <3> QED
      BY <1>7, <3>1, FS_AddElement, Zenon
  <2>2. CASE Evicted = Len(order)
    <3>1. out = ToSet(order)
      BY <1>1, <1>5, <2>2 DEF ToSet
    <3>2. Live \ out = {}
      BY <1>0, <3>1
    <3>3. Cardinality(Live \ out) = 0
      BY <3>2, FS_EmptySet
    <3> QED
      BY <2>1, <3>3, LimitsAssumption
  <2>3. CASE Cardinality(Live \ out) < Capacity
    BY <1>7, <2>1, <2>3, FS_CardinalityType, LimitsAssumption
  <2> QED
    BY <1>2, <2>2, <2>3 DEF out
<1>9. Requeued(k, out)
  <2>1. Live \ out = Live \ (out \cup {k})
    BY <1>0
  <2>2. order' = Append(r, k)
    BY <1>a, <1>4
  <2> QED
    BY <1>0, <1>5, <2>1, <2>2 DEF Requeued
<1>10. b \in Bucket /\ b.lastRefill = now /\ b.tokens = burst /\ b.burst = burst
  BY <1>0 DEF NewBucket, Bucket
<1>11. Served(k, b, a, out, burst)
  <2>1. a.cost = cost
    BY <1>a DEF Answers, Answer
  <2>2. UNCHANGED <<now, janitor>>
    BY DEF TakeNew
  <2> HIDE DEF b, out
  <2> QED
    BY <1>a, <2>1, <2>2 DEF Served, Drop
<1> HIDE DEF b
<1>12. burst \in Int /\ burst >= b.tokens /\ b.tokens <= b.burst
  BY <1>0, <1>10
<1> QED
  BY <1>a, <1>6, <1>8, <1>9, <1>10, <1>11, <1>12, ServedKeeps

\* A key with a bucket, whose limits may have changed.
LEMMA TakeKnownKeeps ==
    ASSUME Inv, NEW k \in Keys, NEW rate \in Rates, NEW burst \in Bursts, NEW cost \in Costs,
           TakeKnown(k, rate, burst, cost)
    PROVE  Inv'
<1> DEFINE old == items[k]
           changed == old.rate # rate \/ old.burst # burst
<1>0. /\ now \in Nat /\ order \in Seq(Keys) /\ IsInjective(order) /\ ToSet(order) = Live
      /\ items[k] # Absent /\ rate \in Nat /\ burst \in Nat
      /\ Cardinality(Live) <= Capacity
  BY ParamsAssumption DEF Inv, TypeOK, OrderMatchesMap, TakeKnown
<1>f. PICK full \in Refills(k, rate, burst) :
        \E a \in Answers(full, cost) :
          /\ items' = [items EXCEPT ![k] = used(After(full, cost))]
          /\ denied' = [denied EXCEPT ![k] = Denial(a)]
          /\ credit' = [credit EXCEPT ![k] = (credit[k] + Rounded(items[k])) - Spent(a)]
  BY DEF TakeKnown
<1>a. PICK a \in Answers(full, cost) :
        /\ items' = [items EXCEPT ![k] = used(After(full, cost))]
        /\ denied' = [denied EXCEPT ![k] = Denial(a)]
        /\ credit' = [credit EXCEPT ![k] = (credit[k] + Rounded(items[k])) - Spent(a)]
  BY <1>f
<1>b. PICK e \in Roundings : full = IF changed THEN refill(resize(old, rate, burst, e), e)
                                              ELSE refill(old, e)
  BY DEF Refills
<1>1. /\ old \in Bucket /\ old.tokens <= old.burst /\ old.lastUsed <= now
      /\ old.lastRefill = old.lastUsed /\ credit[k] >= Owed(old) /\ credit[k] \in Int
      /\ old.tokens \in Nat /\ old.burst \in Nat /\ old.rate \in Nat /\ old.lastUsed \in Nat
      /\ k \in Live
  BY <1>0, LiveFacts
<1>2. PICK c \in Int : c = credit[k] + Rounded(old)
  BY <1>1, RoundingProperties DEF Rounded
<1>c. credit' = [credit EXCEPT ![k] = c - Spent(a)]
  <2>1. credit' = [credit EXCEPT ![k] = (credit[k] + Rounded(old)) - Spent(a)]
    BY <1>a
  <2>2. (credit[k] + Rounded(old)) - Spent(a) = c - Spent(a)
    BY <1>2
  <2> HIDE DEF old
  <2> QED
    BY <2>1, <2>2
<1> HIDE DEF old
<1>3. full \in Bucket /\ full.lastRefill = now /\ full.tokens <= full.burst /\ c >= full.tokens
  <2> DEFINE f == refill(old, e)
  <2>1. /\ f \in Bucket /\ f.lastRefill = now
        /\ f.tokens <= Owed(old) + Rounded(old) /\ f.tokens <= f.burst
    BY <1>0, <1>1, RefillProperties DEF Owed
  <2>2. f.tokens \in Nat /\ Owed(old) \in Int /\ Rounded(old) \in Int
    <3>1. now - old.lastRefill \in Nat
      BY <1>0, <1>1
    <3>2. Owed(old) \in Int
      BY <1>1, <3>1, Inflow DEF Owed
    <3> QED
      BY <2>1, <3>2, RoundingProperties DEF Rounded, Bucket
  <2>3. CASE changed
    <3> DEFINE g == resize(old, rate, burst, e)
    <3>1. g = [f EXCEPT !.rate = rate, !.burst = burst, !.tokens = Min({f.tokens, burst})]
      BY DEF resize
    <3> HIDE DEF f
    <3>2. PICK n \in Nat : n = Min({f.tokens, burst}) /\ n <= f.tokens /\ n <= burst
      BY <1>0, <2>2, MinOfTwo
    <3>3. g = [f EXCEPT !.rate = rate, !.burst = burst, !.tokens = n]
      BY <3>1, <3>2
    <3> HIDE DEF g
    <3>4. /\ g \in Bucket /\ g.tokens = n /\ g.burst = burst /\ g.rate = rate /\ g.lastRefill = now
      BY <2>1, <3>3 DEF Bucket
    <3>5. refill(g, e) = g
      <4>1. ~Flows(g)
        BY <1>0, <3>4 DEF Flows
      <4>2. refill(g, e) = [g EXCEPT !.tokens = g.tokens, !.lastRefill = now]
        BY <4>1 DEF refill
      <4> QED
        BY <3>4, <4>2 DEF Bucket
    <3>6. full = g
      BY <1>b, <2>3, <3>5 DEF g
    <3>7. f.tokens <= c
      BY <1>1, <1>2, <2>1, <2>2
    <3>8. n <= c /\ n <= burst
      BY <1>0, <2>2, <3>2, <3>7
    <3> QED
      BY <3>4, <3>6, <3>8
  <2>4. CASE ~changed
    <3>1. full = f
      BY <1>b, <2>4
    <3> HIDE DEF f
    <3> QED
      BY <1>1, <1>2, <2>1, <2>2, <3>1
  <2> QED
    BY <2>3, <2>4
<1>4. Served(k, full, a, {}, c)
  <2>1. a.cost = cost
    BY DEF Answers, Answer
  <2>2. /\ DOMAIN items = Keys /\ DOMAIN denied = Keys /\ DOMAIN credit = Keys
    BY DEF Inv, TypeOK
  <2>3. UNCHANGED <<now, janitor>>
    BY DEF TakeKnown
  <2> QED
    BY <1>a, <1>c, <2>1, <2>2, <2>3 DEF Served
<1>5. Requeued(k, {})
  <2>1. Len(order) \in Nat /\ DOMAIN order = 1 .. Len(order)
    BY <1>0, LenProperties
  <2>2. PICK i \in 1 .. Len(order) : order[i] = k
    BY <1>0, <1>1, <2>1 DEF ToSet
  <2>3. PICK r : r = RemoveAt(order, i)
    OBVIOUS
  <2>4. order' = Append(r, k)
    BY <1>0, <2>2, <2>3, RemoveFirstIsRemoveAt DEF TakeKnown, touchLocked
  <2>5. r \in Seq(Keys)
    BY <1>0, <2>3, RemoveAtProperties
  <2>6. IsInjective(r) /\ Embeds(r, order) /\ ToSet(r) = Live \ {k}
    BY <1>0, <2>2, <2>3, RemoveAtKeeps
  <2>7. Live \ ({} \cup {k}) = Live \ {k}
    OBVIOUS
  <2> QED
    BY <2>4, <2>5, <2>6, <2>7 DEF Requeued
<1>6. Cardinality((Live \ {}) \cup {k}) <= Capacity
  <2>1. (Live \ {}) \cup {k} = Live
    BY <1>1
  <2> QED
    BY <1>0, <2>1
<1> QED
  BY <1>3, <1>4, <1>5, <1>6, ServedKeeps
----------------------------------------------------------------------------
(* The janitor and the clock. *)

\* A sweep keeps the invariant.
LEMMA SweepKeeps ==
    ASSUME Inv, sweep
    PROVE  Inv'
<1> DEFINE P == {i \in DOMAIN order : order[i] \in Live \ Idle}
<1>0. /\ now \in Nat /\ order \in Seq(Keys) /\ IsInjective(order) /\ ToSet(order) = Live
      /\ Cardinality(Live) <= Capacity /\ now' = now
  BY DEF Inv, TypeOK, OrderMatchesMap, sweep
<1>1. DOMAIN order = 1 .. Len(order)
  BY <1>0, LenProperties
<1>2. P \in SUBSET (1 .. Len(order)) /\ order' = Sublist(order, P)
  BY <1>1 DEF sweep
<1>3. {order[i] : i \in P} = Live \ Idle
  <2>1. \A x \in Live : \E i \in DOMAIN order : order[i] = x
    BY <1>0 DEF ToSet
  <2> QED
    BY <2>1
<1> HIDE DEF P
<1>4. /\ order' \in Seq(Keys) /\ IsInjective(order') /\ ToSet(order') = Live \ Idle
      /\ Embeds(order', order)
  BY <1>0, <1>2, <1>3, SublistProperties, SublistEmbeds
<1>5. /\ items' = [x \in Keys |-> IF x \in Idle THEN Absent ELSE items[x]]
      /\ denied' = [x \in Keys |-> IF x \in Idle THEN Absent ELSE denied[x]]
      /\ credit' = [x \in Keys |-> IF x \in Idle THEN 0 ELSE credit[x]]
  BY DEF sweep, Drop
<1>6. Live' = Live \ Idle
  BY <1>5 DEF Live
<1>7. ASSUME NEW x \in Live'
      PROVE  x \in Live /\ items'[x] = items[x] /\ credit'[x] = credit[x]
  BY <1>5, <1>6 DEF Live
<1>8. TypeOK'
  <2>1. /\ items' \in [Keys -> Bucket \cup {Absent}] /\ denied' \in [Keys -> Result \cup {Absent}]
        /\ credit' \in [Keys -> Int]
    BY <1>5 DEF Inv, TypeOK
  <2>2. jpc' \in {"select", "sweep", "returned"} /\ closer' \in {"open", "closing", "closed"}
    BY DEF sweep, Inv, TypeOK
  <2>3. \A x \in Live' : items'[x].tokens <= items'[x].burst /\ items'[x].lastUsed <= now'
    BY <1>0, <1>7 DEF Inv, TypeOK
  <2> QED
    BY <1>0, <1>4, <2>1, <2>2, <2>3 DEF TypeOK
<1>9. OrderMatchesMap'
  <2>1. IsFiniteSet(Live)
    BY KeysAssumption, FS_Subset DEF Live
  <2>2. /\ Cardinality(Live') <= Cardinality(Live) /\ Cardinality(Live) \in Nat
        /\ Cardinality(Live') \in Nat
    BY <1>6, <2>1, FS_Subset, FS_CardinalityType
  <2>3. Cardinality(Live') <= Capacity
    BY <1>0, <2>2, LimitsAssumption
  <2> QED
    BY <1>4, <1>6, <2>3 DEF OrderMatchesMap
<1>10. OldestFirst'
  <2> SUFFICES ASSUME NEW i \in DOMAIN order', NEW j \in DOMAIN order', i < j
               PROVE  items'[order'[i]].lastUsed <= items'[order'[j]].lastUsed
    BY DEF OldestFirst
  <2>1. PICK m, n \in DOMAIN order : m < n /\ order'[i] = order[m] /\ order'[j] = order[n]
    BY <1>4 DEF Embeds
  <2>2. order'[i] \in Live' /\ order'[j] \in Live'
    BY <1>4, <1>6 DEF ToSet
  <2>3. items[order[m]].lastUsed <= items[order[n]].lastUsed
    BY <2>1 DEF Inv, OldestFirst
  <2> QED
    BY <1>7, <2>1, <2>2, <2>3
<1>11. Refilled' /\ Entitled'
  BY <1>0, <1>7 DEF Inv, Refilled, Entitled, Owed
<1>12. Waits'
  <2> SUFFICES ASSUME NEW x \in Keys, denied'[x] # Absent
               PROVE  /\ items'[x] # Absent
                      /\ ~Grants(items'[x], denied'[x].cost)
                      /\ Told(items'[x], denied'[x])
    BY DEF Waits, Told
  <2>1. denied'[x] = denied[x] /\ items'[x] = items[x]
    BY <1>5
  <2> QED
    BY <2>1 DEF Inv, Waits
<1> QED
  BY <1>8, <1>9, <1>10, <1>11, <1>12 DEF Inv

\* Whatever leaves buckets, answers and the order alone, and lets the credit
\* grow with the clock, keeps the invariant.
LEMMA TimePassesKeeps ==
    ASSUME Inv, TimePasses
    PROVE  Inv'
<1>0. /\ now \in Nat /\ now' = now + 1 /\ items' = items /\ order' = order /\ denied' = denied
      /\ jpc' = jpc /\ closer' = closer /\ Live' = Live
      /\ credit' = [k \in Keys |-> IF k \in Live THEN credit[k] + items[k].rate ELSE credit[k]]
  BY DEF Inv, TypeOK, TimePasses, Live, janitor
<1>1. TypeOK'
  <2>1. credit' \in [Keys -> Int]
    <3>1. \A k \in Live : items[k].rate \in Nat /\ credit[k] \in Int
      BY LiveFacts DEF Live
    <3>2. credit \in [Keys -> Int]
      BY DEF Inv, TypeOK
    <3> QED
      BY <1>0, <3>1, <3>2
  <2>2. ASSUME NEW k \in Live PROVE items[k].tokens <= items[k].burst /\ items[k].lastUsed <= now'
    <3>1. k \in Keys /\ items[k] # Absent
      BY DEF Live
    <3>2. items[k].lastUsed \in Nat /\ items[k].lastUsed <= now /\ items[k].tokens <= items[k].burst
      BY <3>1, LiveFacts
    <3> QED
      BY <1>0, <3>2
  <2> QED
    BY <1>0, <2>1, <2>2 DEF Inv, TypeOK
<1>2. OrderMatchesMap' /\ OldestFirst' /\ Refilled' /\ Waits'
  BY <1>0 DEF Inv, OrderMatchesMap, OldestFirst, Refilled, Waits
<1>3. Entitled'
  <2> SUFFICES ASSUME NEW k \in Live
               PROVE  credit'[k] >= items[k].tokens + (now' - items[k].lastRefill) * items[k].rate
    BY <1>0 DEF Entitled, Owed
  <2>1. k \in Keys /\ items[k] # Absent
    BY DEF Live
  <2>2. /\ items[k].rate \in Nat /\ items[k].tokens \in Nat /\ items[k].lastRefill \in Nat
        /\ credit[k] \in Int /\ items[k].lastRefill <= now
        /\ credit[k] >= items[k].tokens + (now - items[k].lastRefill) * items[k].rate
    BY <2>1, LiveFacts DEF Owed
  <2>3. PICK d \in Nat : d = now - items[k].lastRefill
    BY <1>0, <2>2
  <2>4. now' - items[k].lastRefill = d + 1
    <3>1. now' = now + 1 /\ now \in Nat /\ items[k].lastRefill \in Nat
      BY <1>0, <2>2
    <3> QED
      BY <2>3, <3>1
  <2>5. PICK x \in Nat : x = d * items[k].rate
    BY <2>2, <2>3, Inflow
  <2>6. credit'[k] = credit[k] + items[k].rate
    BY <1>0, <2>1
  <2>7. (d + 1) * items[k].rate = x + items[k].rate
    <3>1. PICK y \in Nat : y = items[k].rate
      BY <2>2
    <3>2. (d + 1) * y = d * y + y
      OBVIOUS
    <3> QED
      BY <2>5, <3>1, <3>2
  <2>8. credit[k] >= items[k].tokens + x
    BY <2>2, <2>3, <2>5
  <2>9. credit[k] + items[k].rate >= items[k].tokens + (x + items[k].rate)
    BY <2>2, <2>8
  <2> QED
    BY <2>4, <2>6, <2>7, <2>9
<1> QED
  BY <1>1, <1>2, <1>3 DEF Inv

\* The steps of Close and the ticks concern no bucket.
LEMMA QuietKeeps ==
    ASSUME Inv, UNCHANGED <<now, items, order, denied, credit>>,
           jpc' \in {"select", "sweep", "returned"}, closer' \in {"open", "closing", "closed"}
    PROVE  Inv'
<1>1. Live' = Live
  BY DEF Live
<1>2. TypeOK'
  BY <1>1 DEF Inv, TypeOK
<1> QED
  BY <1>1, <1>2 DEF Inv, OrderMatchesMap, OldestFirst, Refilled, Entitled, Waits, Owed

\* Every step keeps the invariant.
LEMMA InvStep == Inv /\ [Next]_vars => Inv'
<1> SUFFICES ASSUME Inv, [Next]_vars PROVE Inv'
  OBVIOUS
<1>0. jpc \in {"select", "sweep", "returned"} /\ closer \in {"open", "closing", "closed"}
  BY DEF Inv, TypeOK
<1>1. ASSUME NEW k \in Keys, NEW rate \in Rates, NEW burst \in Bursts, NEW cost \in Costs,
             Take(k, rate, burst, cost)
      PROVE  Inv'
  BY <1>1, TakeNewKeeps, TakeKnownKeeps DEF Take
<1>2. CASE JanitorTick
  BY <1>0, <1>2, QuietKeeps DEF JanitorTick
<1>3. CASE sweep
  BY <1>3, SweepKeeps
<1>4. CASE JanitorStop
  BY <1>0, <1>4, QuietKeeps DEF JanitorStop
<1>5. CASE CloseStop
  BY <1>0, <1>5, QuietKeeps DEF CloseStop
<1>6. CASE CloseReturn
  BY <1>0, <1>6, QuietKeeps DEF CloseReturn
<1>7. CASE TimePasses
  BY <1>7, TimePassesKeeps
<1>8. CASE UNCHANGED vars
  BY <1>0, <1>8, QuietKeeps DEF vars, janitor
<1> QED
  BY <1>1, <1>2, <1>3, <1>4, <1>5, <1>6, <1>7, <1>8 DEF Next

\* The invariant holds in every reachable state.
LEMMA InvAlways == Spec => []Inv
BY InvInit, InvStep, PTL DEF Spec

\* The types of RateLimit's variables; no bucket of the map holds more than its
\* burst or was last used in the future.
THEOREM TypeCorrect == Spec => []TypeOK
<1>1. Inv => TypeOK
  BY DEF Inv
<1> QED
  BY <1>1, InvAlways, PTL

\* The slice and the map hold the same keys, each once, and no more than the
\* capacity, through touches, evictions and idle sweeps.
THEOREM SliceMatchesMap == Spec => []OrderMatchesMap
<1>1. Inv => OrderMatchesMap
  BY DEF Inv
<1> QED
  BY <1>1, InvAlways, PTL

\* The front of the slice is always a key that was used longest ago.
THEOREM VictimIsOldest == Spec => []OldestFirst
<1>1. Inv => OldestFirst
  BY DEF Inv
<1> QED
  BY <1>1, InvAlways, PTL

\* Refills, resizes and takes mint no tokens.
THEOREM NothingMinted == Spec => []NoMintedTokens
<1>1. ASSUME Inv PROVE NoMintedTokens
  <2> SUFFICES ASSUME NEW k \in Live PROVE credit[k] >= items[k].tokens
    BY DEF NoMintedTokens
  <2>1. k \in Keys /\ items[k] # Absent
    BY DEF Live
  <2>2. /\ items[k].rate \in Nat /\ items[k].tokens \in Nat /\ items[k].lastRefill \in Nat
        /\ credit[k] \in Int /\ items[k].lastRefill <= now /\ now \in Nat
        /\ credit[k] >= items[k].tokens + (now - items[k].lastRefill) * items[k].rate
    BY <1>1, <2>1, LiveFacts DEF Owed
  <2>3. now - items[k].lastRefill \in Nat
    BY <2>2
  <2>4. PICK x \in Nat : x = (now - items[k].lastRefill) * items[k].rate
    BY <2>2, <2>3, Inflow
  <2>5. credit[k] >= items[k].tokens + x
    BY <2>2, <2>4
  <2> QED
    BY <2>2, <2>5
<1> QED
  BY <1>1, InvAlways, PTL
----------------------------------------------------------------------------
(* The wait, and what a sweep forgets. *)

\* The wait is a millisecond too short at most, and less than two too long.
LEMMA WaitIsWithin ==
    ASSUME NEW b \in Bucket, NEW cost \in Costs, ~Grants(b, cost), b.rate # 0, cost <= b.burst,
           NEW d \in Nat, d = now - b.lastRefill, now \in Nat,
           NEW w \in Roundings, NEW q \in Nat, q = retryAfterMs(b.tokens, cost, b.rate, b.burst, w),
           NEW e \in Roundings, b.rate * Ms >= 2 * Ulp
    PROVE  /\ d >= (q + 1) * Ms => Grants(refill(b, e), cost)
           /\ d <= (q - 2) * Ms => ~Grants(refill(b, e), cost)
<1> DEFINE f == refill(b, e)
<1>0. /\ b.tokens \in Nat /\ b.rate \in Nat \ {0} /\ b.burst \in Nat /\ cost \in Nat
      /\ Ms \in Nat \ {0} /\ b.lastRefill \in Nat
  BY ParamsAssumption DEF Bucket
<1>1. Ulp \in Nat /\ e \in Int /\ -Ulp <= e /\ e <= Ulp /\ w \in Int /\ -Ulp <= w /\ w <= Ulp
  BY RoundingProperties
<1>2. b.tokens < cost
  BY <1>0 DEF Grants
<1>3. PICK deficit \in Nat \ {0} : deficit = cost - b.tokens
  BY <1>0, <1>2
<1>4. PICK m \in Nat \ {0} : m = b.rate * Ms
  <2>1. b.rate * Ms \in Nat /\ b.rate * Ms # 0
    BY <1>0
  <2> QED
    BY <2>1
<1>5. PICK c \in Int : c = ceilMs(deficit + w, b.rate) /\ c * m >= deficit + w /\ (c - 1) * m < deficit + w
  <2>1. PICK n \in Int : n = deficit + w
    BY <1>1
  <2>2. PICK c \in Int : c = (n + m - 1) \div m /\ c * m >= n /\ (c - 1) * m < n
    BY CeilProperties
  <2>3. c = ceilMs(deficit + w, b.rate)
    BY <1>4, <2>1, <2>2 DEF ceilMs
  <2> QED
    BY <2>1, <2>2, <2>3
<1>6. q = IF 1 <= c THEN c ELSE 1
  <2>1. Min({cost, b.burst}) = cost
    BY <1>0, MinOfTwo
  <2>2. ~(cost > b.burst) /\ ~(deficit <= 0)
    BY <1>0
  <2>3. q = Max({1, c})
    BY <1>0, <1>3, <1>5, <2>1, <2>2 DEF retryAfterMs
  <2> QED
    BY <2>3, MaxOfTwo
<1>7. PICK x \in Nat : x = d * b.rate
  BY <1>0, Inflow
<1>8. f.burst = b.burst
  BY DEF refill, Bucket
<1>9. m >= 2 * Ulp
  BY <1>4
<1> DEFINE came == b.tokens + x + e
           s == IF b.tokens <= came THEN came ELSE b.tokens
<1>10. Flows(b) => f.tokens = IF b.burst <= s THEN b.burst ELSE s
  BY <1>7, RefilledTokens
<1>11. ~Flows(b) => f.tokens = b.tokens
  BY DEF refill, Bucket
<1> HIDE DEF f
<1>12. ASSUME d >= (q + 1) * Ms PROVE Grants(f, cost)
  <2>1. q + 1 \in Nat /\ q + 1 >= 1 + 1
    BY <1>6
  <2>2. 1 * Ms <= (q + 1) * Ms
    BY <1>0, <2>1, GrowsWith
  <2>3. Flows(b)
    <3>1. PICK y \in Nat : y = (q + 1) * Ms
      BY <1>0, <2>1, Inflow
    <3>2. d >= 1
      BY <1>0, <1>12, <2>2, <3>1
    <3> QED
      BY <1>0, <3>2 DEF Flows
  <2>4. ((q + 1) * Ms) * b.rate <= x
    <3>1. (q + 1) * Ms \in Int
      BY <1>0, <2>1
    <3> QED
      BY <1>0, <1>7, <1>12, <3>1, GrowsWith
  <2>5. ((q + 1) * Ms) * b.rate = q * m + m /\ q * m \in Int
    BY <1>0, <1>4
  <2>6. c * m <= q * m /\ c * m \in Int
    BY <1>6, GrowsWith
  <2>7. q * m >= deficit - Ulp
    BY <1>1, <1>5, <2>5, <2>6
  <2>8. x >= deficit + Ulp
    BY <1>1, <1>9, <2>4, <2>5, <2>7
  <2>9. came >= cost
    BY <1>0, <1>1, <1>3, <2>8
  <2> HIDE DEF came
  <2>10. came \in Int
    BY <1>0, <1>1 DEF came
  <2>11. f.tokens >= cost
    BY <1>0, <1>10, <2>3, <2>9, <2>10
  <2> QED
    BY <1>8, <2>11 DEF Grants
<1>13. ASSUME d <= (q - 2) * Ms PROVE ~Grants(f, cost)
  <2>1. CASE ~Flows(b)
    <3>1. f.tokens = b.tokens
      BY <1>11, <2>1
    <3> QED
      BY <1>0, <1>2, <3>1 DEF Grants
  <2>2. CASE Flows(b)
    <3>1. d >= 1
      BY <1>0, <2>2 DEF Flows
    <3>2. q > 2
      <4>1. ASSUME q <= 2 PROVE FALSE
        <5>1. (q - 2) * Ms <= 0 * Ms
          BY <1>0, <4>1, GrowsWith
        <5>2. (q - 2) * Ms \in Int /\ 0 * Ms = 0
          BY <1>0
        <5>3. PICK y \in Int : y = (q - 2) * Ms
          BY <5>2
        <5> QED
          BY <1>13, <3>1, <5>1, <5>2, <5>3
      <4> QED
        BY <4>1
    <3>3. q = c
      BY <1>6, <3>2
    <3>4. x <= ((q - 2) * Ms) * b.rate
      <4>1. (q - 2) * Ms \in Int
        BY <1>0
      <4> QED
        BY <1>0, <1>7, <1>13, <4>1, GrowsWith
    <3>5. ((q - 2) * Ms) * b.rate = (c - 1) * m - m /\ (c - 1) * m \in Int
      BY <1>0, <1>4, <3>3
    <3>6. x < deficit - Ulp
      BY <1>1, <1>5, <1>9, <3>4, <3>5
    <3>7. came < cost /\ came \in Int
      BY <1>0, <1>1, <1>3, <3>6
    <3> HIDE DEF came
    <3>8. f.tokens < cost /\ f.tokens \in Int
      BY <1>0, <1>2, <1>10, <2>2, <3>7
    <3> QED
      BY <1>0, <3>8 DEF Grants
  <2> QED
    BY <2>1, <2>2
<1> QED
  BY <1>12, <1>13 DEF f

\* The wait that a denied caller is told is right to the millisecond, for every
\* rate, burst, cost and length of a millisecond, and however the computations
\* are rounded.
THEOREM WaitIsRight == Spec => []RetryWithinMs
<1>1. ASSUME Inv PROVE RetryWithinMs
  <2> SUFFICES ASSUME NEW k \in Keys, denied[k] # Absent
               PROVE  LET b    == items[k]
                          d    == denied[k]
                          then == b.lastRefill
                          granted(e) == Grants(refill(b, e), d.cost)
                      IN  IF b.rate = 0 \/ d.cost > b.burst
                          THEN \A e \in Roundings : ~granted(e)
                          ELSE b.rate * Ms >= 2 * Ulp =>
                                 /\ now >= then + (d.RetryAfterMs + 1) * Ms =>
                                      \A e \in Roundings : granted(e)
                                 /\ now <= then + (d.RetryAfterMs - 2) * Ms =>
                                      \A e \in Roundings : ~granted(e)
    BY DEF RetryWithinMs
  <2> DEFINE b == items[k]
             d == denied[k]
  <2>1. b # Absent /\ ~Grants(b, d.cost) /\ Told(b, d)
    BY <1>1 DEF Inv, Waits
  <2>2. /\ b \in Bucket /\ b.lastRefill \in Nat /\ b.lastRefill <= now /\ now \in Nat
        /\ b.rate \in Nat /\ b.burst \in Nat
    BY <1>1, <2>1, LiveFacts
  <2>3. d \in Result /\ d.cost \in Costs /\ d.cost \in Nat /\ Ms \in Nat /\ d.RetryAfterMs \in Nat
    <3>1. d \in Result
      BY <1>1 DEF Inv, TypeOK
    <3> QED
      BY <3>1, ParamsAssumption DEF Result
  <2> HIDE DEF b, d
  <2>4. ASSUME NEW e \in Roundings
        PROVE  refill(b, e).burst = b.burst /\ refill(b, e).rate = b.rate
    BY <2>2, RefillProperties
  <2>5. CASE b.rate = 0
    <3>1. ASSUME NEW e \in Roundings PROVE ~Grants(refill(b, e), d.cost)
      <4>1. refill(b, e).tokens = b.tokens
        BY <2>2, <2>5 DEF refill, Flows, Bucket
      <4> QED
        BY <2>1, <2>4, <4>1 DEF Grants
    <3> QED
      BY <2>5, <3>1 DEF b, d
  <2>6. CASE d.cost > b.burst
    <3>1. ASSUME NEW e \in Roundings PROVE ~Grants(refill(b, e), d.cost)
      BY <2>2, <2>3, <2>4, <2>6 DEF Grants
    <3> QED
      BY <2>6, <3>1 DEF b, d
  <2>7. CASE b.rate # 0 /\ ~(d.cost > b.burst)
    <3> SUFFICES ASSUME b.rate * Ms >= 2 * Ulp
                 PROVE  /\ now >= b.lastRefill + (d.RetryAfterMs + 1) * Ms =>
                             \A e \in Roundings : Grants(refill(b, e), d.cost)
                        /\ now <= b.lastRefill + (d.RetryAfterMs - 2) * Ms =>
                             \A e \in Roundings : ~Grants(refill(b, e), d.cost)
      BY <2>7 DEF b, d
    <3>1. PICK t \in Nat : t = now - b.lastRefill
      BY <2>2
    <3>2. d.cost <= b.burst
      BY <2>2, <2>3, <2>7
    <3>3. PICK w \in Roundings :
            d.RetryAfterMs = retryAfterMs(b.tokens, d.cost, b.rate, b.burst, w)
      BY <2>1 DEF Told
    <3>4. PICK q \in Nat : q = d.RetryAfterMs
      BY <2>3
    <3>5. PICK cost \in Costs : cost = d.cost
      BY <2>3
    <3>6. ASSUME NEW e \in Roundings
          PROVE  /\ t >= (q + 1) * Ms => Grants(refill(b, e), d.cost)
                 /\ t <= (q - 2) * Ms => ~Grants(refill(b, e), d.cost)
      <4>1. ~Grants(b, cost) /\ cost <= b.burst /\ q = retryAfterMs(b.tokens, cost, b.rate, b.burst, w)
        BY <2>1, <3>2, <3>3, <3>4, <3>5
      <4>2. /\ t >= (q + 1) * Ms => Grants(refill(b, e), cost)
            /\ t <= (q - 2) * Ms => ~Grants(refill(b, e), cost)
        BY <2>2, <2>7, <3>1, <4>1, WaitIsWithin
      <4> QED
        BY <3>5, <4>2
    <3>7. PICK x \in Int : x = (q + 1) * Ms
      BY <2>3
    <3>8. PICK y \in Int : y = (q - 2) * Ms
      BY <2>3
    <3>9. /\ now >= b.lastRefill + (q + 1) * Ms => t >= (q + 1) * Ms
          /\ now <= b.lastRefill + (q - 2) * Ms => t <= (q - 2) * Ms
      BY <2>2, <3>1, <3>7, <3>8
    <3> QED
      BY <3>4, <3>6, <3>9
  <2> QED
    BY <2>5, <2>6, <2>7
<1> QED
  BY <1>1, InvAlways, PTL

\* A sweep forgets only buckets that would be full by now, if the idle time is
\* long enough to fill them.
THEOREM SweepGivesNothingAway == Spec => SweepForgetsOnlyFull
<1>1. ASSUME Inv, [Next]_vars, jpc = "sweep", jpc' = "select", NEW k \in Live \ Live',
             items[k].rate * IdleTTL >= items[k].burst + Ulp, NEW r \in Roundings
      PROVE  refill(items[k], r).tokens = items[k].burst
  <2> DEFINE b == items[k]
  <2>1. sweep
    BY <1>1 DEF Next, Take, TakeNew, TakeKnown, JanitorTick, JanitorStop, CloseStop, CloseReturn,
                TimePasses, vars, janitor
  <2>2. k \in Keys /\ items[k] # Absent
    BY DEF Live
  <2>3. k \in Idle
    BY <1>1, <2>1, <2>2 DEF sweep, Drop, Live
  <2>4. /\ b \in Bucket /\ b.tokens \in Nat /\ b.burst \in Nat /\ b.rate \in Nat
        /\ b.lastRefill \in Nat /\ b.lastRefill = b.lastUsed /\ now \in Nat
        /\ b.tokens <= b.burst
    BY <1>1, <2>2, LiveFacts
  <2>5. now - b.lastRefill > IdleTTL
    BY <2>3, <2>4 DEF Idle
  <2>6. IdleTTL \in Nat /\ b.rate * IdleTTL >= b.burst + Ulp
    BY <1>1, LimitsAssumption
  <2>7. Ulp \in Nat /\ r \in Int /\ -Ulp <= r
    BY RoundingProperties
  <2> HIDE DEF b
  <2>8. PICK e \in Nat : e = now - b.lastRefill
    BY <2>4, <2>5, <2>6
  <2>9. CASE b.rate = 0
    <3>1. b.burst = 0 /\ b.tokens = 0
      BY <2>4, <2>6, <2>7, <2>9
    <3>2. refill(b, r).tokens = b.tokens
      BY <2>4, <2>9 DEF refill, Flows, Bucket
    <3> QED
      BY <3>1, <3>2 DEF b
  <2>10. CASE b.rate # 0
    <3>1. IdleTTL <= e /\ e > 0
      BY <2>5, <2>6, <2>8
    <3>2. IdleTTL * b.rate <= e * b.rate
      BY <2>4, <2>6, <3>1, GrowsWith
    <3>3. b.rate * IdleTTL = IdleTTL * b.rate
      BY <2>4, <2>6
    <3>4. PICK x \in Nat : x = e * b.rate
      BY <2>4, Inflow
    <3>5. PICK y \in Nat : y = IdleTTL * b.rate
      BY <2>4, <2>6, Inflow
    <3>6. b.burst <= b.tokens + x + r
      BY <2>4, <2>6, <2>7, <3>2, <3>3, <3>4, <3>5
    <3>7. Flows(b)
      BY <2>4, <2>8, <2>10, <3>1 DEF Flows
    <3> DEFINE s == IF b.tokens <= b.tokens + x + r THEN b.tokens + x + r ELSE b.tokens
    <3>8. refill(b, r).tokens = IF b.burst <= s THEN b.burst ELSE s
      BY <2>4, <2>8, <3>4, <3>7, RefilledTokens
    <3>9. b.burst <= s
      BY <2>4, <2>7, <3>6
    <3> QED
      BY <3>8, <3>9 DEF b
  <2> QED
    BY <2>9, <2>10
<1>2. ASSUME Inv, [Next]_vars
      PROVE  jpc = "sweep" /\ jpc' = "select" =>
               \A k \in Live \ Live' :
                   items[k].rate * IdleTTL >= items[k].burst + Ulp =>
                     \A e \in Roundings : refill(items[k], e).tokens = items[k].burst
  BY <1>1, <1>2
<1> QED
  BY <1>2, InvAlways, PTL DEF Spec, SweepForgetsOnlyFull
============================================================================
