--------------------------- MODULE LimiterProofs ---------------------------
(***************************************************************************)
(* Proofs about module Limiter, for every cluster, every list of           *)
(* addresses and any number of requests.                                   *)
(***************************************************************************)
EXTENDS Limiter, BucketFacts

\* The attempts are numbered.
LEMMA AttemptsProperties ==
    /\ Len(Addrs) \in Nat \ {0} /\ Attempts = 1 .. Len(Addrs)
    /\ \A i \in Attempts : Addrs[i] \in Nodes
    /\ IsFiniteSet(Attempts)
<1>1. Len(Addrs) \in Nat /\ Attempts = 1 .. Len(Addrs) /\ \A i \in 1 .. Len(Addrs) : Addrs[i] \in Nodes
  BY NodesAssumption, LenProperties, ElementOfSeq DEF Attempts
<1>2. Len(Addrs) # 0
  BY NodesAssumption, EmptySeq
<1>3. IsFiniteSet(1 .. Len(Addrs))
  BY <1>1, FS_Interval
<1> QED
  BY <1>1, <1>2, <1>3

\* The numbers of the configuration.
LEMMA ConfigNumbers ==
    /\ Rate \in Nat /\ Burst \in Nat /\ Cost \in Nat \ {0}
    /\ MaxInFlight \in Nat \ {0} /\ Timeout \in Nat \ {0} /\ LastArrival \in Nat \ {0}
    /\ Len(Addrs) * Timeout \in Nat /\ MaxTime \in Nat
<1>1. /\ Rate \in Nat /\ Burst \in Nat /\ Cost \in Nat \ {0}
      /\ MaxInFlight \in Nat \ {0} /\ Timeout \in Nat \ {0} /\ LastArrival \in Nat \ {0}
  BY ConfigAssumption, ParamsAssumption
<1>2. Len(Addrs) * Timeout \in Nat
  BY <1>1, AttemptsProperties, Inflow
<1> QED
  BY <1>1, <1>2 DEF MaxTime

\* A request that loads a free slot has seen room.
SlotInv == SlotsHeld /\ \A r \in Reqs : req[r].pc = "cas" => req[r].cur < MaxInFlight

\* Buckets have the limits of the middleware, keep within them and are not from
\* the future.
BucketInv ==
    \A n \in Nodes : bucket[n] # Absent =>
        /\ bucket[n].rate = Rate /\ bucket[n].burst = Burst /\ bucket[n].lastRefill <= now
        /\ bucket[n].tokens <= Burst

\* A Take for request r at node n, when it decides x.
Taken(n, r, x) == \E full \in Refills(n) : Take(n, r, full) /\ x = Decision(full)

\* Tokens that may come in during one tick, with what the rounding may add.
PerTick == Rate + Ulp

\* A number of tokens.
LEMMA PerTickType == PerTick \in Nat
  BY ConfigAssumption, ParamsAssumption DEF PerTick

\* A new bucket is one.
LEMMA CurrentProperties ==
    ASSUME TypeOK, BucketInv, NEW n \in Nodes
    PROVE  /\ Current(n) \in Bucket /\ Current(n).lastRefill <= now /\ now \in Nat
           /\ Current(n).rate = Rate /\ Current(n).burst = Burst /\ Current(n).tokens <= Burst
           /\ bucket[n] = Absent => Current(n).tokens = Burst /\ Current(n).lastRefill = now
           /\ bucket[n] # Absent => Current(n) = bucket[n]
<1>1. now \in Nat /\ Rate \in Rates /\ Burst \in Bursts /\ Burst \in Nat
  BY ConfigAssumption, ConfigNumbers DEF TypeOK
<1>2. CASE bucket[n] = Absent
  BY <1>1, <1>2 DEF Current, NewBucket, Bucket
<1>3. CASE bucket[n] # Absent
  <2>1. bucket[n] \in Bucket
    BY <1>3 DEF TypeOK
  <2> QED
    BY <1>1, <1>3, <2>1 DEF Current, BucketInv
<1> QED
  BY <1>2, <1>3

\* Rounding adds to a bucket no more than Ulp for every tick.
LEMMA RefillWithin ==
    ASSUME NEW b \in Bucket, now \in Nat, b.lastRefill <= now, b.rate = Rate
    PROVE  (now - b.lastRefill) * b.rate + Rounded(b) <= (now - b.lastRefill) * PerTick
<1>1. Rate \in Nat /\ Ulp \in Nat /\ b.lastRefill \in Nat
  BY ConfigNumbers, RoundingProperties DEF Bucket
<1>2. PICK d \in Nat : d = now - b.lastRefill
  BY <1>1
<1>3. d * PerTick = d * Rate + d * Ulp /\ d * Rate \in Nat /\ d * Ulp \in Nat
  BY <1>1, Inflow DEF PerTick
<1>4. Rounded(b) <= d * Ulp
  <2>1. CASE d = 0
    <3>1. Rounded(b) = 0
      BY <1>1, <1>2, <2>1 DEF Rounded, Flows
    <3> QED
      BY <1>3, <3>1
  <2>2. CASE d # 0
    <3>1. PICK k \in Nat : d = 1 + k
      BY <2>2
    <3>2. d * Ulp = Ulp + k * Ulp /\ k * Ulp \in Nat
      BY <1>1, <3>1, Inflow
    <3>3. Rounded(b) <= Ulp
      BY <1>1 DEF Rounded
    <3>4. Rounded(b) \in Nat
      BY <1>1 DEF Rounded
    <3> QED
      BY <1>1, <1>3, <3>2, <3>3, <3>4
  <2> QED
    BY <2>1, <2>2
<1>5. Rounded(b) \in Nat
  BY <1>1 DEF Rounded
<1>6. d * Rate + Rounded(b) <= d * PerTick
  BY <1>3, <1>4, <1>5
<1> QED
  BY <1>2, <1>6

\* Store.Take at node n.
LEMMA TakeEffect ==
    ASSUME TypeOK, BucketInv, NEW n \in Nodes, NEW r \in Reqs, NEW x, Taken(n, r, x)
    PROVE  /\ bucket' \in [Nodes -> Bucket \cup {Absent}]
           /\ bucket'[n] # Absent
           /\ bucket'[n].rate = Rate /\ bucket'[n].burst = Burst /\ bucket'[n].lastRefill = now
           /\ bucket'[n].tokens <= Burst
           /\ bucket'[n].tokens + (IF x = "allowed" THEN Cost ELSE 0)
                <= Current(n).tokens + (now - Current(n).lastRefill) * PerTick
           /\ \A m \in Nodes : m # n => bucket'[m] = bucket[m]
           /\ charged' \in [Reqs -> Nat]
           /\ charged'[r] = IF x = "allowed" THEN charged[r] + 1 ELSE charged[r]
           /\ \A q \in Reqs : q # r => charged'[q] = charged[q]
           /\ x \in Decisions
<1>e. PICK e \in Roundings : Take(n, r, refill(Current(n), e)) /\ x = Decision(refill(Current(n), e))
  BY DEF Taken, Refills
<1> DEFINE c == Current(n)
           full == refill(c, e)
           a == After(full, Cost)
           ok == Grants(full, Cost)
           paid == IF ok THEN Cost ELSE 0
<1>1. /\ c \in Bucket /\ now \in Nat /\ c.lastRefill <= now /\ c.rate = Rate /\ c.burst = Burst
      /\ c.tokens <= Burst /\ Cost \in Costs /\ Cost \in Nat
  BY CurrentProperties, ConfigAssumption, ConfigNumbers
<1>2. /\ full \in Bucket /\ full.lastRefill = now /\ full.rate = Rate /\ full.burst = Burst
      /\ full.tokens <= c.tokens + (now - c.lastRefill) * c.rate + Rounded(c)
      /\ full.tokens <= Burst
  BY <1>1, RefillProperties
<1>3. /\ (now - c.lastRefill) * c.rate + Rounded(c) <= (now - c.lastRefill) * PerTick
      /\ (now - c.lastRefill) * c.rate \in Nat /\ (now - c.lastRefill) * PerTick \in Nat
      /\ Rounded(c) \in Nat
  <2>1. now - c.lastRefill \in Nat /\ c.rate \in Nat /\ Rounded(c) \in Nat
    BY <1>1, RoundingProperties, ConfigNumbers DEF Bucket, Rounded
  <2>2. (now - c.lastRefill) * c.rate \in Nat
    BY <2>1, Inflow
  <2>3. (now - c.lastRefill) * PerTick \in Nat
    BY <2>1, PerTickType, Inflow
  <2> QED
    BY <1>1, <2>1, <2>2, <2>3, RefillWithin
<1>4. /\ a \in Bucket /\ a.lastRefill = full.lastRefill /\ a.rate = full.rate /\ a.burst = full.burst
      /\ a.tokens + paid = full.tokens /\ a.tokens <= full.tokens /\ ok \in BOOLEAN
  BY <1>1, <1>2, TakeProperties
<1>5. bucket' = [bucket EXCEPT ![n] = [a EXCEPT !.lastUsed = now]]
  BY <1>e DEF Take
<1>6. x \in Decisions /\ (x = "allowed" <=> ok)
  BY <1>e DEF Decisions, Decision
<1>7. charged' = [charged EXCEPT ![r] = IF x = "allowed" THEN charged[r] + 1 ELSE charged[r]]
  BY <1>e DEF Take, Charge
<1> HIDE DEF a, full, ok
<1>8. a.tokens + paid <= c.tokens + (now - c.lastRefill) * PerTick /\ a.tokens <= Burst
  <2> DEFINE y == (now - c.lastRefill) * c.rate
             z == (now - c.lastRefill) * PerTick
             g == Rounded(c)
  <2>1. y \in Nat /\ z \in Nat /\ g \in Nat /\ y + g <= z
    BY <1>3
  <2>2. a.tokens + paid <= c.tokens + y + g
    BY <1>2, <1>4
  <2>3. a.tokens \in Nat /\ full.tokens \in Nat /\ c.tokens \in Nat /\ paid \in Nat /\ Burst \in Nat
    BY <1>1, <1>2, <1>4, ConfigNumbers DEF Bucket
  <2>4. a.tokens <= Burst
    BY <1>2, <1>4, <2>3
  <2> HIDE DEF y, z, g, c, paid
  <2>5. a.tokens + paid <= c.tokens + z
    BY <2>1, <2>2, <2>3
  <2> QED
    BY <2>4, <2>5 DEF z
<1> DEFINE u == [a EXCEPT !.lastUsed = now]
<1>9. u \in Bucket /\ u.tokens = a.tokens /\ u.lastRefill = now /\ u.rate = Rate /\ u.burst = Burst
  BY <1>1, <1>2, <1>4 DEF Bucket
<1> HIDE DEF u, c
<1>10. u # Absent
  BY <1>9, NodesAssumption
<1>11. /\ bucket' \in [Nodes -> Bucket \cup {Absent}] /\ bucket'[n] = u
       /\ \A m \in Nodes : m # n => bucket'[m] = bucket[m]
  <2>1. bucket \in [Nodes -> Bucket \cup {Absent}] /\ bucket' = [bucket EXCEPT ![n] = u]
    BY <1>5 DEF TypeOK, u
  <2> QED
    BY <1>9, <2>1
<1>12. /\ charged' \in [Reqs -> Nat]
       /\ charged'[r] = IF x = "allowed" THEN charged[r] + 1 ELSE charged[r]
       /\ \A q \in Reqs : q # r => charged'[q] = charged[q]
  BY <1>7 DEF TypeOK
<1> QED
  BY <1>6, <1>8, <1>9, <1>10, <1>11, <1>12 DEF c
----------------------------------------------------------------------------
(* One request. *)

\* It holds a slot for as long as it is taking or being served ...
SlotLocal(q, dry) ==
    /\ q.slot => q.pc \in {"try", "wait", "serve"}
    /\ q.pc \in {"try", "wait", "serve"} /\ ~dry => q.slot
    /\ q.pc = "cas" => q.cur < MaxInFlight

\* ... and goes through the addresses one by one, unless its client goes away.
WalkLocal(q) ==
    /\ q.pc \in {"idle", "load", "cas"} => q.lost = {} /\ ~q.hung
    /\ q.pc \in {"try", "wait"} => /\ q.idx \in 1 .. Len(Addrs) + 1
                                   /\ q.lost \subseteq 1 .. q.idx - 1
                                   /\ ~q.hung => q.lost = 1 .. q.idx - 1
    /\ q.pc = "try" /\ q.hung => q.idx = Len(Addrs) + 1
    /\ q.pc = "wait" => q.idx \in Attempts /\ ~q.hung
    /\ q.verdict # "none" => q.pc \in {"serve", "done"}
    /\ q.verdict = "failopen" => q.hung \/ q.lost = Attempts

Local(q, dry) == SlotLocal(q, dry) /\ WalkLocal(q)

LocalInv == \A r \in Reqs : Local(req[r], dryRun)

\* What the middleware does to its request.
LEMMA MiddlewareLocal ==
    ASSUME TypeOK, LocalInv, NEW r \in Reqs, Middleware(r)
    PROVE  \E q \in Request : req' = [req EXCEPT ![r] = q] /\ Local(q, dryRun)
<1> DEFINE p == req[r]
<1>0. /\ p \in Request /\ Local(p, dryRun) /\ now \in Nat /\ inflight \in Nat
      /\ Len(Addrs) \in Nat /\ Attempts = 1 .. Len(Addrs)
  BY AttemptsProperties DEF TypeOK, LocalInv
<1>1. CASE Arrive(r)
  <2>1. PICK q \in Request : q = [p EXCEPT !.pc = "load"]
    BY <1>0 DEF Request
  <2>2. req' = [req EXCEPT ![r] = q] /\ p.pc = "idle"
    BY <1>1, <2>1 DEF Arrive
  <2> QED
    BY <1>0, <2>1, <2>2 DEF Request, Local, SlotLocal, WalkLocal
<1>t. ASSUME NEW held \in BOOLEAN, p.pc \in {"load", "cas"}, ~p.slot, held \/ dryRun,
             req' = [req EXCEPT ![r] = [Taking(p) EXCEPT !.slot = held]]
      PROVE  \E q \in Request : req' = [req EXCEPT ![r] = q] /\ Local(q, dryRun)
  <2>1. PICK q \in Request : q = [Taking(p) EXCEPT !.slot = held]
    BY <1>0 DEF Request, Taking
  <2>2. /\ q.pc = "try" /\ q.idx = 1 /\ q.began = now /\ q.slot = held /\ q.verdict = p.verdict
        /\ q.lost = p.lost /\ q.hung = p.hung
    BY <1>0, <2>1 DEF Request, Taking
  <2>3. SlotLocal(q, dryRun)
    BY <1>t, <2>2 DEF SlotLocal
  <2>4. WalkLocal(q)
    BY <1>0, <1>t, <2>2 DEF WalkLocal, Local
  <2> QED
    BY <1>t, <2>1, <2>3, <2>4 DEF Local
<1>2. CASE Load(r)
  <2>1. p.pc = "load" /\ ~p.slot
    BY <1>0, <1>2 DEF Load, Local, SlotLocal
  <2>2. CASE inflight < MaxInFlight /\ req' = [req EXCEPT ![r].pc = "cas", ![r].cur = inflight]
    <3>1. PICK q \in Request : q = [p EXCEPT !.pc = "cas", !.cur = inflight]
      BY <1>0 DEF Request
    <3>2. req' = [req EXCEPT ![r] = q]
      BY <2>2, <3>1
    <3> QED
      BY <1>0, <2>1, <2>2, <3>1, <3>2 DEF Request, Local, SlotLocal, WalkLocal
  <2>3. CASE dryRun /\ req' = [req EXCEPT ![r] = Taking(@)]
    <3>1. Taking(p) = [Taking(p) EXCEPT !.slot = FALSE]
      BY <1>0, <2>1 DEF Taking, Request
    <3> QED
      BY <1>t, <2>1, <2>3, <3>1
  <2>4. CASE req' = [req EXCEPT ![r].pc = "done", ![r].verdict = "busy"]
    <3>1. PICK q \in Request : q = [p EXCEPT !.pc = "done", !.verdict = "busy"]
      BY <1>0 DEF Request
    <3>2. req' = [req EXCEPT ![r] = q]
      BY <2>4, <3>1
    <3> QED
      BY <1>0, <2>1, <3>1, <3>2 DEF Request, Local, SlotLocal, WalkLocal
  <2> QED
    BY <1>2, <2>2, <2>3, <2>4 DEF Load
<1>3. CASE Cas(r)
  <2>1. p.pc = "cas" /\ ~p.slot
    BY <1>0, <1>3 DEF Cas, Local, SlotLocal
  <2>2. CASE Acquire(r)
    BY <1>t, <2>1, <2>2 DEF Acquire
  <2>3. CASE req' = [req EXCEPT ![r].pc = "load", ![r].cur = 0]
    <3>1. PICK q \in Request : q = [p EXCEPT !.pc = "load", !.cur = 0]
      BY <1>0 DEF Request
    <3>2. req' = [req EXCEPT ![r] = q]
      BY <2>3, <3>1
    <3> QED
      BY <1>0, <2>1, <3>1, <3>2 DEF Request, Local, SlotLocal, WalkLocal
  <2> QED
    BY <1>3, <2>2, <2>3 DEF Cas
<1>4. CASE Send(r)
  <2>1. /\ p.pc = "try" /\ p.idx \in Attempts
        /\ req' = [req EXCEPT ![r].pc = "wait", ![r].deadline = now + Timeout]
    BY <1>4 DEF Send
  <2>2. Timeout \in Nat /\ now + Timeout \in Nat
    BY <1>0, ConfigNumbers
  <2>3. PICK q \in Request : q = [p EXCEPT !.pc = "wait", !.deadline = now + Timeout]
    BY <1>0, <2>2 DEF Request
  <2>4. /\ req' = [req EXCEPT ![r] = q]
        /\ q.pc = "wait" /\ q.deadline = now + Timeout /\ q.idx = p.idx /\ q.began = p.began
        /\ q.slot = p.slot /\ q.lost = p.lost /\ q.hung = p.hung /\ q.verdict = p.verdict
    BY <1>0, <2>1, <2>3 DEF Request
  <2>5. SlotLocal(q, dryRun)
    BY <1>0, <2>1, <2>4 DEF Local, SlotLocal
  <2>6. WalkLocal(q)
    BY <1>0, <2>1, <2>4 DEF Local, WalkLocal
  <2> QED
    BY <2>4, <2>5, <2>6 DEF Local
<1>s. ASSUME NEW q \in Request, q.pc = "serve", q.slot = p.slot, q.lost = p.lost, q.hung = p.hung,
             p.pc \in {"try", "wait"}, q.verdict = "failopen" => p.hung \/ p.lost = Attempts
      PROVE  Local(q, dryRun)
  BY <1>0, <1>s DEF Local, SlotLocal, WalkLocal
<1>d. ASSUME NEW q \in Request, q.pc = "done", ~q.slot, q.verdict # "failopen" \/ p.pc = "serve",
             p.pc = "serve" => q.lost = p.lost /\ q.hung = p.hung /\ q.verdict = p.verdict
      PROVE  Local(q, dryRun)
  BY <1>0, <1>d DEF Local, SlotLocal, WalkLocal
<1>5. CASE Decide(r)
  <2>1. p.pc = "wait"
    BY <1>5 DEF Decide
  <2>2. ASSUME NEW v \in {"allowed", "dryrun"},
               req' = [req EXCEPT ![r] = Passed(Cancelled(p), v)]
        PROVE  \E q \in Request : req' = [req EXCEPT ![r] = q] /\ Local(q, dryRun)
    <3>1. PICK q \in Request : q = Passed(Cancelled(p), v)
      BY <1>0 DEF Request, Passed, Cancelled, Decisions
    <3>2. q.pc = "serve" /\ q.verdict = v /\ q.slot = p.slot /\ q.lost = p.lost /\ q.hung = p.hung
      BY <1>0, <3>1 DEF Request, Passed, Cancelled
    <3> QED
      BY <1>s, <2>1, <2>2, <3>1, <3>2
  <2>3. ASSUME Return(r, [Cancelled(p) EXCEPT !.verdict = "denied"])
        PROVE  \E q \in Request : req' = [req EXCEPT ![r] = q] /\ Local(q, dryRun)
    <3>1. PICK q \in Request :
            q = [[Cancelled(p) EXCEPT !.verdict = "denied"] EXCEPT !.pc = "done", !.slot = FALSE]
      BY <1>0 DEF Request, Cancelled, Decisions
    <3>2. req' = [req EXCEPT ![r] = q] /\ q.pc = "done" /\ ~q.slot /\ q.verdict = "denied"
      BY <1>0, <2>3, <3>1 DEF Request, Cancelled, Return
    <3> QED
      BY <1>d, <2>1, <3>1, <3>2
  <2> QED
    BY <1>5, <2>2, <2>3 DEF Decide
<1>6. ASSUME NEW i \in Nat, NEW hung \in BOOLEAN, p.pc = "wait", GoOn(r, i, hung),
             \/ hung = TRUE /\ i = Len(Addrs) + 1
             \/ hung = FALSE /\ i = p.idx + 1
      PROVE  \E q \in Request : req' = [req EXCEPT ![r] = q] /\ Local(q, dryRun)
  <2>0. p.idx \in 1 .. Len(Addrs) /\ p.lost = 1 .. p.idx - 1 /\ p.lost \in SUBSET Attempts
    BY <1>0, <1>6 DEF Local, WalkLocal, Request
  <2>1. PICK q \in Request : q = [Cancelled(p) EXCEPT !.pc = "try", !.idx = i,
                                      !.lost = p.lost \cup {p.idx}, !.hung = hung]
    BY <1>0, <1>6, <2>0 DEF Request, Cancelled
  <2>2. /\ q.pc = "try" /\ q.idx = i /\ q.lost = p.lost \cup {p.idx} /\ q.hung = hung
        /\ q.slot = p.slot /\ q.verdict = p.verdict /\ q.began = p.began
    BY <1>0, <2>1 DEF Request, Cancelled
  <2>3. req' = [req EXCEPT ![r] = q]
    BY <1>6, <2>1, Zenon DEF GoOn
  <2>4. SlotLocal(q, dryRun)
    BY <1>0, <1>6, <2>2 DEF Local, SlotLocal
  <2>5. WalkLocal(q)
    <3>1. q.lost = 1 .. p.idx /\ q.lost \subseteq 1 .. q.idx - 1 /\ q.idx \in 1 .. Len(Addrs) + 1
      BY <1>0, <1>6, <2>0, <2>2
    <3>2. ~hung => q.lost = 1 .. q.idx - 1
      BY <1>6, <2>0, <2>2, <3>1
    <3> QED
      BY <1>0, <1>6, <2>2, <3>1, <3>2 DEF Local, WalkLocal
  <2> QED
    BY <2>3, <2>4, <2>5 DEF Local
<1>7. CASE GiveUp(r)
  <2>1. p.idx + 1 \in Nat
    BY <1>0 DEF Request
  <2> QED
    BY <1>6, <1>7, <2>1 DEF GiveUp
<1>8. CASE Hangup(r)
  <2>1. Len(Addrs) + 1 \in Nat
    BY <1>0
  <2>2. p.pc = "wait" /\ GoOn(r, Len(Addrs) + 1, TRUE)
    BY <1>8 DEF Hangup
  <2> QED
    BY <1>6, <2>1, <2>2, Zenon
<1>9. CASE FailOpen(r)
  <2>1. p.pc = "try" /\ p.idx \notin Attempts /\ req' = [req EXCEPT ![r] = Passed(p, "failopen")]
    BY <1>9 DEF FailOpen
  <2>2. PICK q \in Request : q = Passed(p, "failopen")
    BY <1>0 DEF Request, Passed
  <2>3. q.pc = "serve" /\ q.slot = p.slot /\ q.lost = p.lost /\ q.hung = p.hung
    BY <1>0, <2>2 DEF Request, Passed
  <2>4. p.hung \/ p.lost = Attempts
    BY <1>0, <2>1 DEF Local, WalkLocal
  <2> QED
    BY <1>s, <2>1, <2>2, <2>3, <2>4
<1>10. CASE Served(r)
  <2>1. p.pc = "serve" /\ Return(r, p)
    BY <1>10 DEF Served
  <2>2. PICK q \in Request : q = [p EXCEPT !.pc = "done", !.slot = FALSE]
    BY <1>0 DEF Request
  <2>3. /\ req' = [req EXCEPT ![r] = q] /\ q.pc = "done" /\ ~q.slot
        /\ q.lost = p.lost /\ q.hung = p.hung /\ q.verdict = p.verdict
    BY <1>0, <2>1, <2>2 DEF Request, Return
  <2> QED
    BY <1>d, <2>1, <2>2, <2>3
<1> QED
  BY <1>1, <1>2, <1>3, <1>4, <1>5, <1>7, <1>8, <1>9, <1>10 DEF Middleware
----------------------------------------------------------------------------
(* The endpoint. *)

\* Only the call of attempt i of request r moves.
CallMoves(r, i, outer, inner) ==
    /\ call' \in [Reqs -> [Attempts -> Call]]
    /\ call'[r][i].outer = outer /\ call'[r][i].inner = inner
    /\ \A q \in Reqs, j \in Attempts : q # r \/ j # i => call'[q][j] = call[q][j]

\* Two states of a request that differ in the answer at most.
SameButReply(p, q) ==
    /\ p.pc = q.pc /\ p.cur = q.cur /\ p.slot = q.slot /\ p.idx = q.idx /\ p.deadline = q.deadline
    /\ p.verdict = q.verdict /\ p.began = q.began /\ p.lost = q.lost /\ p.hung = q.hung

\* All requests do no more than that.
RepliesOnly ==
    req' \in [Reqs -> Request] /\ \A q \in Reqs : SameButReply(req'[q], req[q])

\* Answering a call ends it, and reaches the request only if that still waits.
LEMMA RespondEffect ==
    ASSUME TypeOK, NEW r \in Reqs, NEW i \in Attempts, NEW x \in {"error"} \cup Decisions,
           NEW inner \in {"none", "sent"}, Respond(r, i, x, inner)
    PROVE  /\ CallMoves(r, i, "none", inner)
           /\ inner = "sent" => call'[r][i].to = call[r][i].to
           /\ RepliesOnly /\ \A q \in Reqs : q # r => req'[q] = req[q]
           /\ req'[r].reply = IF Waiting(r, i) THEN x ELSE req[r].reply
<1>0. /\ call \in [Reqs -> [Attempts -> Call]] /\ req \in [Reqs -> Request]
      /\ call[r][i] \in Call /\ req[r] \in Request
  BY DEF TypeOK
<1>1. PICK c \in Call : c = [Inner(call[r][i], inner) EXCEPT !.outer = "none"]
  BY <1>0 DEF Inner, Call
<1>2. c.outer = "none" /\ c.inner = inner /\ (inner = "sent" => c.to = call[r][i].to)
  BY <1>0, <1>1 DEF Inner, Call
<1>3. call' = [call EXCEPT ![r][i] = c]
  BY <1>1 DEF Respond
<1>4. /\ CallMoves(r, i, "none", inner)
      /\ inner = "sent" => call'[r][i].to = call[r][i].to
  BY <1>0, <1>2, <1>3 DEF CallMoves
<1>5. PICK q \in Request : q = [req[r] EXCEPT !.reply = IF Waiting(r, i) THEN x ELSE req[r].reply]
  BY <1>0 DEF Request
<1>6. SameButReply(q, req[r]) /\ q.reply = IF Waiting(r, i) THEN x ELSE req[r].reply
  BY <1>0, <1>5 DEF SameButReply, Request
<1>7. req' = [req EXCEPT ![r] = q]
  BY <1>5 DEF Respond
<1>8. \A p \in Request : SameButReply(p, p)
  BY DEF SameButReply
<1> QED
  BY <1>0, <1>4, <1>6, <1>7, <1>8 DEF RepliesOnly

\* The requests that a step of the endpoint leaves alone.
LEMMA NoReply ==
    ASSUME TypeOK, UNCHANGED req
    PROVE  RepliesOnly
BY DEF TypeOK, RepliesOnly, SameButReply

\* What the endpoint keeps when it applies no take.
BucketsRest == UNCHANGED <<bucket, charged>>

\* Forwarding a take changes that one call and nothing the request sees.
LEMMA ForwardEffect ==
    ASSUME TypeOK, NEW r \in Reqs, NEW i \in Attempts, NEW p \in Nodes, Forward(r, i, p)
    PROVE  CallMoves(r, i, "fwd", "sent") /\ call'[r][i].to = p /\ req' = req
<1>0. call \in [Reqs -> [Attempts -> Call]]
  BY DEF TypeOK
<1>1. PICK c \in Call : c = [outer |-> "fwd", to |-> p, inner |-> "sent"]
  BY DEF Call
<1>2. call' = [call EXCEPT ![r][i] = c]
  BY <1>1 DEF Forward
<1> QED
  BY <1>0, <1>1, <1>2 DEF CallMoves, Forward

\* A coordinator applies the take, or forwards it to the primary of its ring.
LEMMA CoordinatorEffect ==
    ASSUME TypeOK, BucketInv, NEW r \in Reqs, NEW i \in Attempts, handleRateLimitTake(r, i)
    PROVE  /\ call[r][i].outer = "sent"
           /\ \/ /\ primary[Addrs[i]] = Addrs[i]
                 /\ CallMoves(r, i, "none", "none")
                 /\ RepliesOnly /\ \A q \in Reqs : q # r => req'[q] = req[q]
                 /\ \E x \in Decisions :
                      /\ Taken(Addrs[i], r, x)
                      /\ req'[r].reply = IF Waiting(r, i) THEN x ELSE req[r].reply
              \/ /\ CallMoves(r, i, "fwd", "sent") /\ call'[r][i].to = primary[Addrs[i]]
                 /\ req' = req /\ BucketsRest
<1>0. Addrs[i] \in Nodes /\ primary[Addrs[i]] \in Nodes
  BY AttemptsProperties DEF TypeOK
<1>1. ASSUME primary[Addrs[i]] = Addrs[i], NEW full \in Refills(Addrs[i]), Take(Addrs[i], r, full),
             Respond(r, i, Decision(full), "none")
      PROVE  /\ CallMoves(r, i, "none", "none")
             /\ RepliesOnly /\ \A q \in Reqs : q # r => req'[q] = req[q]
             /\ \E x \in Decisions :
                  /\ Taken(Addrs[i], r, x)
                  /\ req'[r].reply = IF Waiting(r, i) THEN x ELSE req[r].reply
  <2>1. PICK d : d = Decision(full)
    OBVIOUS
  <2>2. Taken(Addrs[i], r, d)
    BY <1>1, <2>1 DEF Taken
  <2>3. d \in Decisions /\ Respond(r, i, d, "none")
    BY <1>0, <1>1, <2>1, <2>2, TakeEffect
  <2>4. /\ CallMoves(r, i, "none", "none")
        /\ RepliesOnly /\ \A q \in Reqs : q # r => req'[q] = req[q]
        /\ req'[r].reply = IF Waiting(r, i) THEN d ELSE req[r].reply
    BY <2>3, RespondEffect
  <2> QED
    BY <2>2, <2>3, <2>4
<1>2. CASE Forward(r, i, primary[Addrs[i]]) /\ UNCHANGED <<bucket, charged>>
  BY <1>0, <1>2, ForwardEffect DEF handleRateLimitTake, BucketsRest
<1> QED
  BY <1>1, <1>2 DEF handleRateLimitTake

\* The primary applies it.
LEMMA PrimaryEffect ==
    ASSUME TypeOK, BucketInv, NEW r \in Reqs, NEW i \in Attempts, handleInternalRateLimitTake(r, i)
    PROVE  /\ call[r][i].inner = "sent" /\ call[r][i].to \in Nodes /\ req' = req
           /\ \E x \in Decisions :
                /\ Taken(call[r][i].to, r, x)
                /\ \/ /\ CallMoves(r, i, "fwd", x) /\ call[r][i].outer = "fwd"
                      /\ call'[r][i].to = call[r][i].to
                   \/ CallMoves(r, i, call[r][i].outer, "none") /\ call[r][i].outer # "fwd"
<1>0. call \in [Reqs -> [Attempts -> Call]] /\ call[r][i] \in Call
  BY DEF TypeOK
<1>1. /\ call[r][i].inner = "sent" /\ call[r][i].to \in Nodes /\ req' = req
  BY DEF handleInternalRateLimitTake, TypeOK
<1>f. PICK full \in Refills(call[r][i].to) :
        /\ Take(call[r][i].to, r, full)
        /\ call' = [call EXCEPT ![r][i] = Inner(@, IF @.outer = "fwd" THEN Decision(full) ELSE "none")]
  BY DEF handleInternalRateLimitTake
<1>p. PICK d : d = Decision(full)
  OBVIOUS
<1>t. Taken(call[r][i].to, r, d)
  BY <1>f, <1>p DEF Taken
<1>2. d \in Decisions
  BY <1>1, <1>t, TakeEffect
<1> DEFINE e == IF call[r][i].outer = "fwd" THEN d ELSE "none"
<1>3. call' = [call EXCEPT ![r][i] = Inner(call[r][i], e)]
  BY <1>f, <1>p
<1>4. PICK c \in Call : c = Inner(call[r][i], e)
  BY <1>0, <1>2 DEF Inner, Call
<1>5. c.outer = call[r][i].outer /\ c.inner = e /\ (e # "none" => c.to = call[r][i].to)
  BY <1>0, <1>4 DEF Inner, Call
<1>d. d # "none"
  BY <1>2 DEF Decisions
<1> HIDE DEF e
<1>6. CallMoves(r, i, call[r][i].outer, e) /\ (e # "none" => call'[r][i].to = call[r][i].to)
  BY <1>0, <1>3, <1>4, <1>5 DEF CallMoves
<1> QED
  BY <1>1, <1>2, <1>d, <1>t, <1>6 DEF e

\* The answer of the primary goes back, or an error does.
LEMMA RelayEffect ==
    ASSUME TypeOK, NEW r \in Reqs, NEW i \in Attempts, Relay(r, i)
    PROVE  /\ call[r][i].outer = "fwd" /\ call[r][i].inner \in Decisions
           /\ CallMoves(r, i, "none", "none") /\ BucketsRest
           /\ RepliesOnly /\ \A q \in Reqs : q # r => req'[q] = req[q]
           /\ req'[r].reply = IF Waiting(r, i) THEN call[r][i].inner ELSE req[r].reply
<1>1. PICK d \in Decisions : d = call[r][i].inner
  BY DEF Relay
<1>2. Respond(r, i, d, "none") /\ call[r][i].outer = "fwd" /\ BucketsRest
  BY <1>1 DEF Relay, cluster, past, BucketsRest
<1> QED
  BY <1>1, <1>2, RespondEffect

\* A forwarding that fails answers with an error and leaves the take on its way.
LEMMA ForwardErrEffect ==
    ASSUME TypeOK, NEW r \in Reqs, NEW i \in Attempts, ForwardErr(r, i)
    PROVE  /\ call[r][i].outer = "fwd" /\ BucketsRest
           /\ CallMoves(r, i, "none", IF call[r][i].inner = "sent" THEN "sent" ELSE "none")
           /\ call[r][i].inner = "sent" => call'[r][i].to = call[r][i].to
           /\ RepliesOnly /\ \A q \in Reqs : q # r => req'[q] = req[q]
           /\ req'[r].reply = IF Waiting(r, i) THEN "error" ELSE req[r].reply
<1>1. PICK e \in {"none", "sent"} : e = IF call[r][i].inner = "sent" THEN "sent" ELSE "none"
  OBVIOUS
<1>2. Respond(r, i, "error", e) /\ call[r][i].outer = "fwd" /\ BucketsRest
  BY <1>1 DEF ForwardErr, past, BucketsRest
<1> QED
  BY <1>1, <1>2, RespondEffect
----------------------------------------------------------------------------
(* The steps of the middleware, as the invariants see them. *)

\* On the way to Take, or turned away.
Before(r) ==
    /\ req[r].pc \in {"idle", "load", "cas"} /\ req'[r].pc \in {"load", "cas", "try", "done"}
    /\ req'[r].pc = "try" => req'[r].idx = 1
    /\ req'[r].verdict \in {req[r].verdict, "busy"}
    /\ req'[r].reply = req[r].reply /\ req'[r].lost = req[r].lost
    /\ call' = call /\ FailOpenTotal' = FailOpenTotal

\* An attempt is sent.
Sends(r) ==
    /\ req[r].pc = "try" /\ req'[r].pc = "wait"
    /\ req[r].idx \in Attempts /\ req'[r].idx = req[r].idx
    /\ req'[r].verdict = req[r].verdict
    /\ req'[r].reply = req[r].reply /\ req'[r].lost = req[r].lost
    /\ CallMoves(r, req[r].idx, "sent", call[r][req[r].idx].inner)
    /\ call'[r][req[r].idx].to = call[r][req[r].idx].to
    /\ FailOpenTotal' = FailOpenTotal

\* The answer is a decision.
Decides(r) ==
    /\ req[r].pc = "wait" /\ req'[r].pc \in {"serve", "done"}
    /\ \/ req[r].reply = "allowed" /\ req'[r].verdict = "allowed"
       \/ req[r].reply = "denied" /\ req'[r].verdict \in {"dryrun", "denied"}
    /\ req'[r].reply = "none" /\ req'[r].lost = req[r].lost
    /\ call' = call /\ FailOpenTotal' = FailOpenTotal

\* The attempt has come to nothing.
GoesOn(r) ==
    /\ req[r].pc = "wait" /\ req'[r].pc = "try"
    /\ req'[r].idx \in {req[r].idx + 1, Len(Addrs) + 1}
    /\ req'[r].verdict = req[r].verdict
    /\ req'[r].reply = "none" /\ req'[r].lost = req[r].lost \cup {req[r].idx}
    /\ call' = call /\ FailOpenTotal' = FailOpenTotal

\* No address is left.
Opens(r) ==
    /\ req[r].pc = "try" /\ req'[r].pc = "serve" /\ req'[r].verdict = "failopen"
    /\ req'[r].reply = req[r].reply /\ req'[r].lost = req[r].lost
    /\ call' = call /\ FailOpenTotal' = FailOpenTotal + 1

\* The handler is through.
Leaves(r) ==
    /\ req[r].pc = "serve" /\ req'[r].pc = "done" /\ req'[r].verdict = req[r].verdict
    /\ req'[r].reply = req[r].reply /\ req'[r].lost = req[r].lost
    /\ call' = call /\ FailOpenTotal' = FailOpenTotal

Kinds(r) == Before(r) \/ Sends(r) \/ Decides(r) \/ GoesOn(r) \/ Opens(r) \/ Leaves(r)

\* What no step of the middleware touches.
NodesRest == UNCHANGED <<now, cluster, dryRun, past>>

\* A step of the middleware is one of these.
LEMMA MiddlewareKinds ==
    ASSUME TypeOK, NEW r \in Reqs, Middleware(r)
    PROVE  Kinds(r) /\ NodesRest
<1> DEFINE p == req[r]
<1>0. /\ p \in Request /\ now \in Nat /\ inflight \in Nat /\ req \in [Reqs -> Request]
      /\ call \in [Reqs -> [Attempts -> Call]]
  BY DEF TypeOK
<1>1. CASE Arrive(r)
  <2>1. req' = [req EXCEPT ![r] = [p EXCEPT !.pc = "load"]] /\ p.pc = "idle"
    BY <1>1 DEF Arrive
  <2>2. Before(r)
    BY <1>0, <1>1, <2>1 DEF Before, Arrive, Request
  <2> QED
    BY <1>1, <2>2 DEF Arrive, Kinds, NodesRest
<1>2. CASE Load(r)
  <2>1. p.pc = "load" /\ call' = call /\ FailOpenTotal' = FailOpenTotal
    BY <1>2 DEF Load
  <2>2. \E q : /\ q \in {[p EXCEPT !.pc = "cas", !.cur = inflight], Taking(p),
                         [p EXCEPT !.pc = "done", !.verdict = "busy"]}
               /\ req' = [req EXCEPT ![r] = q]
    BY <1>2 DEF Load
  <2>3. PICK q : /\ q \in {[p EXCEPT !.pc = "cas", !.cur = inflight], Taking(p),
                           [p EXCEPT !.pc = "done", !.verdict = "busy"]}
                 /\ req' = [req EXCEPT ![r] = q]
    BY <2>2
  <2>4. /\ q.pc \in {"cas", "try", "done"} /\ (q.pc = "try" => q.idx = 1)
        /\ q.verdict \in {p.verdict, "busy"} /\ q.reply = p.reply /\ q.lost = p.lost
    BY <1>0, <2>3 DEF Request, Taking
  <2>5. req'[r] = q
    BY <1>0, <2>3
  <2>6. Before(r)
    BY <2>1, <2>4, <2>5 DEF Before
  <2> QED
    BY <1>2, <2>6 DEF Load, Kinds, NodesRest
<1>3. CASE Cas(r)
  <2>1. p.pc = "cas" /\ call' = call /\ FailOpenTotal' = FailOpenTotal
    BY <1>3 DEF Cas
  <2>2. \E q : /\ q \in {[Taking(p) EXCEPT !.slot = TRUE], [p EXCEPT !.pc = "load", !.cur = 0]}
               /\ req' = [req EXCEPT ![r] = q]
    BY <1>3 DEF Cas, Acquire
  <2>3. PICK q : /\ q \in {[Taking(p) EXCEPT !.slot = TRUE], [p EXCEPT !.pc = "load", !.cur = 0]}
                 /\ req' = [req EXCEPT ![r] = q]
    BY <2>2
  <2>4. /\ q.pc \in {"load", "try"} /\ (q.pc = "try" => q.idx = 1)
        /\ q.verdict \in {p.verdict, "busy"} /\ q.reply = p.reply /\ q.lost = p.lost
    BY <1>0, <2>3 DEF Request, Taking
  <2>5. req'[r] = q
    BY <1>0, <2>3
  <2>6. Before(r)
    BY <2>1, <2>4, <2>5 DEF Before
  <2> QED
    BY <1>3, <2>6 DEF Cas, Kinds, NodesRest
<1>4. CASE Send(r)
  <2>1. /\ p.pc = "try" /\ p.idx \in Attempts
        /\ req' = [req EXCEPT ![r] = [p EXCEPT !.pc = "wait", !.deadline = now + Timeout]]
        /\ call' = [call EXCEPT ![r][p.idx].outer = "sent"]
        /\ FailOpenTotal' = FailOpenTotal
    BY <1>4 DEF Send
  <2>2. /\ req'[r].pc = "wait" /\ req'[r].idx = p.idx /\ req'[r].verdict = p.verdict
        /\ req'[r].reply = p.reply /\ req'[r].lost = p.lost
    BY <1>0, <2>1 DEF Request
  <2>d. PICK d \in Call : d = call[r][p.idx]
    BY <1>0, <2>1
  <2>3. PICK c \in Call : c = [d EXCEPT !.outer = "sent"]
    BY DEF Call
  <2>4. c.outer = "sent" /\ c.inner = call[r][p.idx].inner /\ c.to = call[r][p.idx].to
    BY <2>d, <2>3 DEF Call
  <2>5. call' = [call EXCEPT ![r][p.idx] = c]
    BY <2>1, <2>d, <2>3
  <2>6. /\ CallMoves(r, p.idx, "sent", call[r][p.idx].inner)
        /\ call'[r][p.idx].to = call[r][p.idx].to
    BY <1>0, <2>1, <2>4, <2>5 DEF CallMoves
  <2>7. Sends(r)
    BY <2>1, <2>2, <2>6 DEF Sends
  <2> QED
    BY <1>4, <2>7 DEF Send, Kinds, NodesRest
<1>5. CASE Decide(r)
  <2>1. p.pc = "wait" /\ call' = call /\ FailOpenTotal' = FailOpenTotal
    BY <1>5 DEF Decide
  <2>2. \E q : /\ req' = [req EXCEPT ![r] = q]
               /\ \/ p.reply = "allowed" /\ q = Passed(Cancelled(p), "allowed")
                  \/ p.reply = "denied" /\ q = Passed(Cancelled(p), "dryrun")
                  \/ /\ p.reply = "denied"
                     /\ q = [[Cancelled(p) EXCEPT !.verdict = "denied"] EXCEPT
                               !.pc = "done", !.slot = FALSE]
    BY <1>5 DEF Decide, Return
  <2>3. PICK q : /\ req' = [req EXCEPT ![r] = q]
                 /\ \/ p.reply = "allowed" /\ q = Passed(Cancelled(p), "allowed")
                    \/ p.reply = "denied" /\ q = Passed(Cancelled(p), "dryrun")
                    \/ /\ p.reply = "denied"
                       /\ q = [[Cancelled(p) EXCEPT !.verdict = "denied"] EXCEPT
                                 !.pc = "done", !.slot = FALSE]
    BY <2>2
  <2>4. /\ q.pc \in {"serve", "done"} /\ q.reply = "none" /\ q.lost = p.lost
        /\ \/ p.reply = "allowed" /\ q.verdict = "allowed"
           \/ p.reply = "denied" /\ q.verdict \in {"dryrun", "denied"}
    BY <1>0, <2>3 DEF Request, Passed, Cancelled
  <2>5. req'[r] = q
    BY <1>0, <2>3
  <2>6. Decides(r)
    BY <2>1, <2>4, <2>5 DEF Decides
  <2> QED
    BY <1>5, <2>6 DEF Decide, Kinds, NodesRest
<1>6. ASSUME NEW i \in {p.idx + 1, Len(Addrs) + 1}, NEW hung \in BOOLEAN, p.pc = "wait", GoOn(r, i, hung)
      PROVE  Kinds(r) /\ NodesRest
  <2>1. req' = [req EXCEPT ![r] =
                  [Cancelled(p) EXCEPT !.pc = "try", !.idx = i, !.lost = p.lost \cup {p.idx},
                                       !.hung = hung]]
    BY <1>6 DEF GoOn
  <2>2. req'[r] = [Cancelled(p) EXCEPT !.pc = "try", !.idx = i, !.lost = p.lost \cup {p.idx},
                                       !.hung = hung]
    BY <1>0, <2>1
  <2>3. /\ req'[r].pc = "try" /\ req'[r].idx = i /\ req'[r].verdict = p.verdict
        /\ req'[r].reply = "none" /\ req'[r].lost = p.lost \cup {p.idx}
    BY <1>0, <2>2 DEF Request, Cancelled
  <2>4. GoesOn(r)
    BY <1>6, <2>3 DEF GoesOn, GoOn
  <2> QED
    BY <1>6, <2>4 DEF GoOn, Kinds, NodesRest
<1>7. CASE GiveUp(r)
  BY <1>6, <1>7 DEF GiveUp
<1>8. CASE Hangup(r)
  <2>1. p.pc = "wait" /\ GoOn(r, Len(Addrs) + 1, TRUE)
    BY <1>8 DEF Hangup
  <2>2. Len(Addrs) + 1 \in {p.idx + 1, Len(Addrs) + 1} /\ TRUE \in BOOLEAN
    OBVIOUS
  <2> HIDE DEF p
  <2> QED
    BY <1>6, <2>1, <2>2, Zenon
<1>9. CASE FailOpen(r)
  <2>1. /\ p.pc = "try" /\ req' = [req EXCEPT ![r] = Passed(p, "failopen")]
        /\ call' = call /\ FailOpenTotal' = FailOpenTotal + 1
    BY <1>9 DEF FailOpen
  <2>2. req'[r] = Passed(p, "failopen")
    BY <1>0, <2>1
  <2>3. Opens(r)
    BY <1>0, <2>1, <2>2 DEF Opens, Passed, Request
  <2> QED
    BY <1>9, <2>3 DEF FailOpen, Kinds, NodesRest
<1>10. CASE Served(r)
  <2>1. /\ p.pc = "serve" /\ req' = [req EXCEPT ![r] = [p EXCEPT !.pc = "done", !.slot = FALSE]]
        /\ call' = call /\ FailOpenTotal' = FailOpenTotal
    BY <1>10 DEF Served, Return
  <2>2. req'[r] = [p EXCEPT !.pc = "done", !.slot = FALSE]
    BY <1>0, <2>1
  <2>3. Leaves(r)
    BY <1>0, <2>1, <2>2 DEF Leaves, Request
  <2> QED
    BY <1>10, <2>3 DEF Served, Kinds, NodesRest
<1> QED
  BY <1>1, <1>2, <1>3, <1>4, <1>5, <1>7, <1>8, <1>9, <1>10 DEF Middleware
----------------------------------------------------------------------------
(* The other steps. *)

\* A crash cuts the calls that the node was serving or waiting for.
CallsCut(n) ==
    /\ call' \in [Reqs -> [Attempts -> Call]]
    /\ \A r \in Reqs, i \in Attempts :
          /\ call'[r][i].to = call[r][i].to
          /\ call'[r][i].outer \in {"none", call[r][i].outer}
          /\ \/ call'[r][i].inner = call[r][i].inner
             \/ call[r][i].inner = "sent" /\ call'[r][i].inner = "lost"
    /\ \A r \in Reqs : req'[r].reply \in {"error", req[r].reply}
    /\ \A r \in Reqs : req'[r].reply # req[r].reply => req[r].pc = "wait"

\* What a crash does to the requests.
LEMMA CrashEffect ==
    ASSUME TypeOK, NEW n \in Nodes, Crash(n)
    PROVE  RepliesOnly /\ CallsCut(n)
<1> DEFINE Broken(r, i) == Addrs[i] = n /\ call[r][i].outer # "none"
           Cut(r, i) == call[r][i].to = n /\ call[r][i].inner = "sent"
           C(r, i) == [call[r][i] EXCEPT !.outer = IF Broken(r, i) THEN "none" ELSE call[r][i].outer,
                                         !.inner = IF Cut(r, i) THEN "lost" ELSE call[r][i].inner]
           Q(r) == IF \E i \in Attempts : Waiting(r, i) /\ Broken(r, i)
                   THEN [req[r] EXCEPT !.reply = "error"] ELSE req[r]
<1>1. call' = [r \in Reqs |-> [i \in Attempts |-> C(r, i)]] /\ req' = [r \in Reqs |-> Q(r)]
  BY DEF Crash
<1>2. ASSUME NEW r \in Reqs, NEW i \in Attempts
      PROVE  /\ C(r, i) \in Call
             /\ C(r, i).to = call[r][i].to
             /\ C(r, i).outer \in {"none", call[r][i].outer}
             /\ \/ C(r, i).inner = call[r][i].inner
                \/ call[r][i].inner = "sent" /\ C(r, i).inner = "lost"
  <2>1. PICK c \in Call : c = call[r][i]
    BY DEF TypeOK
  <2>2. PICK o \in {"none", c.outer} : o = IF Broken(r, i) THEN "none" ELSE call[r][i].outer
    BY <2>1
  <2>3. PICK e \in {"lost", c.inner} :
           /\ e = IF Cut(r, i) THEN "lost" ELSE call[r][i].inner
           /\ \/ e = c.inner
              \/ c.inner = "sent" /\ e = "lost"
    BY <2>1
  <2>4. C(r, i) = [c EXCEPT !.outer = o, !.inner = e]
    BY <2>1, <2>2, <2>3
  <2>5. o \in {"none", "sent", "fwd"} /\ e \in {"none", "sent", "lost"} \cup Decisions
    BY <2>2, <2>3 DEF Call
  <2> HIDE DEF C
  <2> QED
    BY <2>1, <2>2, <2>3, <2>4, <2>5 DEF Call
<1>3. ASSUME NEW r \in Reqs
      PROVE  /\ Q(r) \in Request /\ SameButReply(Q(r), req[r])
             /\ Q(r).reply \in {"error", req[r].reply}
             /\ Q(r).reply # req[r].reply => req[r].pc = "wait"
  <2>1. req[r] \in Request
    BY DEF TypeOK
  <2>2. CASE Q(r) = req[r]
    BY <2>1, <2>2 DEF SameButReply
  <2>3. CASE Q(r) = [req[r] EXCEPT !.reply = "error"] /\ req[r].pc = "wait"
    BY <2>1, <2>3 DEF SameButReply, Request
  <2> QED
    BY <2>2, <2>3 DEF Waiting
<1> HIDE DEF C, Q
<1>4. RepliesOnly
  BY <1>1, <1>3 DEF RepliesOnly
<1>5. CallsCut(n)
  BY <1>1, <1>2, <1>3 DEF CallsCut
<1> QED
  BY <1>4, <1>5

\* The steps that nobody of the middleware takes.
Outside ==
    \/ \E r \in Reqs, i \in Attempts : \/ handleRateLimitTake(r, i)
                                       \/ handleInternalRateLimitTake(r, i)
                                       \/ Relay(r, i) \/ ForwardErr(r, i)
    \/ \E n \in Nodes : join(n) \/ Crash(n) \/ Restart(n)
    \/ TimePasses
    \/ Answered \/ UNCHANGED vars

\* Every step is of the middleware or not.
LEMMA TwoSides ==
    ASSUME [Next]_vars
    PROVE  (\E r \in Reqs : Middleware(r)) \/ Outside
BY DEF Next, Outside

\* Those that only concern the nodes, the clock or nothing at all.
Idle ==
    /\ UNCHANGED <<bucket, dryRun, inflight, FailOpenTotal, req, call, past>>
    /\ now' \in {now, now + 1}
    /\ now' # now => TimePasses

\* What the nodes hear of a join does not concern the requests, nor does time.
LEMMA IdleEffect ==
    ASSUME TypeOK, (\E n \in Nodes : join(n) \/ Restart(n)) \/ TimePasses \/ Answered \/ UNCHANGED vars
    PROVE  Idle
<1>1. CASE \E n \in Nodes : join(n) \/ Restart(n)
  BY <1>1 DEF join, Restart, Idle
<1>2. CASE TimePasses
  BY <1>2 DEF TimePasses, Idle, cluster
<1>3. CASE Answered \/ UNCHANGED vars
  BY <1>3 DEF Answered, vars, cluster, Idle
<1> QED
  BY <1>1, <1>2, <1>3

\* A step outside takes nothing from a request but the answer.
LEMMA OutsideEffect ==
    ASSUME TypeOK, BucketInv, Outside
    PROVE  /\ RepliesOnly /\ UNCHANGED <<dryRun, inflight, FailOpenTotal>>
           /\ call' \in [Reqs -> [Attempts -> Call]]
           /\ now' \in {now, now + 1}
           /\ now' # now => TimePasses
<1>1. CASE \E r \in Reqs, i \in Attempts : handleRateLimitTake(r, i)
  <2>1. PICK r \in Reqs, i \in Attempts : handleRateLimitTake(r, i)
    BY <1>1
  <2>2. UNCHANGED <<now, dryRun, inflight, FailOpenTotal>>
    BY <2>1 DEF handleRateLimitTake
  <2> QED
    BY <2>1, <2>2, CoordinatorEffect, NoReply DEF CallMoves
<1>2. CASE \E r \in Reqs, i \in Attempts : handleInternalRateLimitTake(r, i)
  <2>1. PICK r \in Reqs, i \in Attempts : handleInternalRateLimitTake(r, i)
    BY <1>2
  <2>2. UNCHANGED <<now, dryRun, inflight, FailOpenTotal>>
    BY <2>1 DEF handleInternalRateLimitTake
  <2> QED
    BY <2>1, <2>2, PrimaryEffect, NoReply DEF CallMoves
<1>3. CASE \E r \in Reqs, i \in Attempts : Relay(r, i)
  <2>1. PICK r \in Reqs, i \in Attempts : Relay(r, i)
    BY <1>3
  <2>2. UNCHANGED <<now, dryRun, inflight, FailOpenTotal>>
    BY <2>1 DEF Relay
  <2> QED
    BY <2>1, <2>2, RelayEffect DEF CallMoves
<1>4. CASE \E r \in Reqs, i \in Attempts : ForwardErr(r, i)
  <2>1. PICK r \in Reqs, i \in Attempts : ForwardErr(r, i)
    BY <1>4
  <2>2. UNCHANGED <<now, dryRun, inflight, FailOpenTotal>>
    BY <2>1 DEF ForwardErr
  <2> QED
    BY <2>1, <2>2, ForwardErrEffect DEF CallMoves
<1>5. CASE \E n \in Nodes : Crash(n)
  <2>1. PICK n \in Nodes : Crash(n)
    BY <1>5
  <2>2. UNCHANGED <<now, dryRun, inflight, FailOpenTotal>>
    BY <2>1 DEF Crash
  <2> QED
    BY <2>1, <2>2, CrashEffect DEF CallsCut
<1>6. CASE Idle
  <2>1. /\ UNCHANGED <<dryRun, inflight, FailOpenTotal, req, call>> /\ now' \in {now, now + 1}
        /\ now' # now => TimePasses
    BY <1>6 DEF Idle
  <2>2. RepliesOnly
    BY <2>1, NoReply
  <2> QED
    BY <2>1, <2>2 DEF TypeOK
<1> QED
  BY <1>1, <1>2, <1>3, <1>4, <1>5, <1>6, IdleEffect DEF Outside
----------------------------------------------------------------------------
(* What every request keeps. *)

\* It is not concerned with the answer.
LEMMA LocalSame ==
    ASSUME NEW p \in Request, NEW q \in Request, SameButReply(q, p), NEW dry,
           Local(p, dry)
    PROVE  Local(q, dry)
BY DEF SameButReply, Local, SlotLocal, WalkLocal

\* The state of every request stays in order.
LEMMA LocalStep ==
    ASSUME TypeOK, BucketInv, LocalInv, [Next]_vars
    PROVE  LocalInv' /\ req' \in [Reqs -> Request]
<1>0. req \in [Reqs -> Request]
  BY DEF TypeOK
<1>1. ASSUME NEW r \in Reqs, Middleware(r)
      PROVE  LocalInv' /\ req' \in [Reqs -> Request]
  <2>1. PICK q \in Request : req' = [req EXCEPT ![r] = q] /\ Local(q, dryRun)
    BY <1>1, MiddlewareLocal
  <2>2. now' = now /\ dryRun' = dryRun
    BY <1>1, MiddlewareKinds DEF NodesRest
  <2>3. ASSUME NEW s \in Reqs
        PROVE  Local(req'[s], dryRun)
    BY <1>0, <2>1 DEF LocalInv
  <2> QED
    BY <1>0, <2>1, <2>2, <2>3 DEF LocalInv
<1>2. ASSUME Outside
      PROVE  LocalInv' /\ req' \in [Reqs -> Request]
  <2>1. RepliesOnly /\ dryRun' = dryRun
    BY <1>2, OutsideEffect
  <2>2. ASSUME NEW s \in Reqs
        PROVE  Local(req'[s], dryRun)
    BY <1>0, <2>1, LocalSame DEF RepliesOnly, LocalInv
  <2> QED
    BY <2>1, <2>2 DEF LocalInv, RepliesOnly
<1> QED
  BY <1>1, <1>2, TwoSides
----------------------------------------------------------------------------
(* The counters. *)

Slots == {r \in Reqs : req[r].slot}

Opened == {r \in Reqs : req[r].verdict = "failopen"}

\* They count what they are meant to.
Counted ==
    /\ inflight = Cardinality(Slots) /\ inflight <= MaxInFlight
    /\ FailOpenTotal = Cardinality(Opened)

\* The middleware takes a slot, gives one back, or does neither.
LEMMA SlotMoves ==
    ASSUME TypeOK, LocalInv, NEW r \in Reqs, Middleware(r)
    PROVE  \/ inflight' = inflight /\ Slots' = Slots
           \/ /\ inflight < MaxInFlight /\ inflight' = inflight + 1
              /\ r \notin Slots /\ Slots' = Slots \cup {r}
           \/ inflight' = inflight - 1 /\ r \in Slots /\ Slots' = Slots \ {r}
<1> DEFINE p == req[r]
           Keeps == inflight' = inflight /\ req'[r].slot = p.slot
<1>0. /\ p \in Request /\ req \in [Reqs -> Request] /\ Local(p, dryRun) /\ inflight \in Nat
      /\ req' \in [Reqs -> Request]
  BY MiddlewareLocal DEF TypeOK, LocalInv
<1>1. ASSUME NEW s \in Reqs, s # r
      PROVE  req'[s] = req[s]
  BY <1>0, <1>1, MiddlewareLocal
<1>k. ASSUME Keeps
      PROVE  inflight' = inflight /\ Slots' = Slots
  <2>1. \A s \in Reqs : req'[s].slot = req[s].slot
    BY <1>1, <1>k
  <2> QED
    BY <1>k, <2>1 DEF Slots
<1>r. ASSUME NEW q \in Request, q.slot = p.slot, Return(r, q)
      PROVE  \/ inflight' = inflight /\ Slots' = Slots
             \/ inflight' = inflight - 1 /\ r \in Slots /\ Slots' = Slots \ {r}
  <2>1. req'[r].slot = FALSE
    BY <1>0, <1>r DEF Return, Request
  <2>2. CASE p.slot
    <3>1. inflight' = inflight - 1 /\ r \in Slots
      BY <1>r, <2>2 DEF Return, Slots
    <3>2. Slots' = Slots \ {r}
      BY <1>1, <2>1 DEF Slots
    <3> QED
      BY <3>1, <3>2
  <2>3. CASE ~p.slot
    <3>1. p.slot = FALSE /\ inflight' = inflight
      BY <1>0, <1>r, <2>3 DEF Return, Request
    <3>2. Keeps
      BY <2>1, <3>1
    <3> QED
      BY <1>k, <3>2
  <2> QED
    BY <2>2, <2>3
<1>2. CASE Arrive(r) \/ Load(r) \/ Send(r) \/ GiveUp(r) \/ Hangup(r) \/ FailOpen(r)
  <2>2. ASSUME Arrive(r)
        PROVE  Keeps
    BY <1>0, <2>2 DEF Arrive, Request
  <2>3. ASSUME Load(r)
        PROVE  Keeps
    <3>1. inflight' = inflight
      BY <2>3 DEF Load
    <3>2. PICK q : /\ q \in {[p EXCEPT !.pc = "cas", !.cur = inflight], Taking(p),
                             [p EXCEPT !.pc = "done", !.verdict = "busy"]}
                   /\ req' = [req EXCEPT ![r] = q]
      BY <2>3 DEF Load
    <3>3. q.slot = p.slot
      BY <1>0, <3>2 DEF Request, Taking
    <3> QED
      BY <1>0, <3>1, <3>2, <3>3
  <2>4. ASSUME Send(r)
        PROVE  Keeps
    BY <1>0, <2>4 DEF Send, Request
  <2>5. ASSUME GiveUp(r)
        PROVE  Keeps
    BY <1>0, <2>5 DEF GiveUp, GoOn, Cancelled, Request
  <2>6. ASSUME Hangup(r)
        PROVE  Keeps
    BY <1>0, <2>6 DEF Hangup, GoOn, Cancelled, Request
  <2>7. ASSUME FailOpen(r)
        PROVE  Keeps
    BY <1>0, <2>7 DEF FailOpen, Passed, Request
  <2> QED
    BY <1>k, <1>2, <2>2, <2>3, <2>4, <2>5, <2>6, <2>7
<1>3. CASE Cas(r)
  <2>1. p.pc = "cas" /\ ~p.slot /\ p.cur < MaxInFlight /\ r \notin Slots
    BY <1>0, <1>3 DEF Cas, Local, SlotLocal, Slots
  <2>2. CASE inflight = p.cur /\ Acquire(r)
    <3>1. inflight < MaxInFlight /\ inflight' = inflight + 1
      BY <2>1, <2>2 DEF Acquire
    <3>2. req'[r].slot = TRUE
      BY <1>0, <2>2 DEF Acquire, Taking, Request
    <3>3. Slots' = Slots \cup {r}
      BY <1>1, <3>2 DEF Slots
    <3> QED
      BY <2>1, <3>1, <3>3
  <2>3. CASE req' = [req EXCEPT ![r].pc = "load", ![r].cur = 0] /\ UNCHANGED inflight
    <3>1. Keeps
      BY <1>0, <2>3 DEF Request
    <3> QED
      BY <1>k, <3>1
  <2> QED
    BY <1>3, <2>2, <2>3 DEF Cas
<1>4. CASE Decide(r)
  <2> DEFINE c == Cancelled(p)
             d == [c EXCEPT !.verdict = "denied"]
  <2>0. c \in Request /\ c.slot = p.slot
    BY <1>0 DEF Cancelled, Request
  <2>1. CASE UNCHANGED inflight /\ \E v : req' = [req EXCEPT ![r] = Passed(c, v)]
    <3>1. Keeps
      BY <1>0, <2>0, <2>1 DEF Passed, Request
    <3> QED
      BY <1>k, <3>1
  <2>2. CASE Return(r, d)
    <3> HIDE DEF c
    <3>1. d \in Request /\ d.slot = p.slot
      BY <2>0 DEF Request, Decisions
    <3> QED
      BY <1>r, <2>2, <3>1
  <2> QED
    BY <1>4, <2>1, <2>2 DEF Decide
<1>5. CASE Served(r)
  BY <1>0, <1>r, <1>5 DEF Served
<1> QED
  BY <1>2, <1>3, <1>4, <1>5 DEF Middleware

\* No step makes a counter wrong.
LEMMA CountedStep ==
    ASSUME TypeOK, BucketInv, LocalInv, Counted, [Next]_vars
    PROVE  Counted'
<1>0. /\ IsFiniteSet(Slots) /\ IsFiniteSet(Opened) /\ MaxInFlight \in Nat /\ inflight \in Nat
      /\ Cardinality(Slots) \in Nat /\ Cardinality(Opened) \in Nat
  <2>1. IsFiniteSet(Slots) /\ IsFiniteSet(Opened)
    BY NodesAssumption, FS_Subset DEF Slots, Opened
  <2> QED
    BY <2>1, FS_CardinalityType, ConfigNumbers DEF TypeOK
<1>1. ASSUME NEW r \in Reqs, Middleware(r)
      PROVE  Counted'
  <2>1. inflight' = Cardinality(Slots') /\ inflight' <= MaxInFlight
    <3>1. CASE inflight' = inflight /\ Slots' = Slots
      BY <3>1 DEF Counted
    <3>2. CASE /\ inflight < MaxInFlight /\ inflight' = inflight + 1
               /\ r \notin Slots /\ Slots' = Slots \cup {r}
      <4>1. Cardinality(Slots \cup {r}) = Cardinality(Slots) + 1
        BY <1>0, <3>2, FS_AddElement, Zenon
      <4> QED
        BY <1>0, <3>2, <4>1 DEF Counted
    <3>3. CASE inflight' = inflight - 1 /\ r \in Slots /\ Slots' = Slots \ {r}
      <4>1. Cardinality(Slots \ {r}) = Cardinality(Slots) - 1
        BY <1>0, <3>3, FS_RemoveElement, Zenon
      <4> QED
        BY <1>0, <3>3, <4>1 DEF Counted
    <3> QED
      BY <1>1, <3>1, <3>2, <3>3, SlotMoves
  <2>2. FailOpenTotal' = Cardinality(Opened')
    <3>0. /\ Kinds(r) /\ req' \in [Reqs -> Request] /\ req[r] \in Request
          /\ \A s \in Reqs : s # r => req'[s] = req[s]
      BY <1>1, MiddlewareKinds, MiddlewareLocal DEF TypeOK
    <3>1. CASE Opens(r)
      <4>1. r \notin Opened /\ FailOpenTotal' = FailOpenTotal + 1
        BY <3>1 DEF Opens, Opened, LocalInv, Local, WalkLocal
      <4>2. Opened' = Opened \cup {r}
        BY <3>0, <3>1 DEF Opens, Opened
      <4>3. Cardinality(Opened \cup {r}) = Cardinality(Opened) + 1
        BY <1>0, <4>1, FS_AddElement, Zenon
      <4> QED
        BY <4>1, <4>2, <4>3 DEF Counted
    <3>2. CASE ~Opens(r)
      <4>1. FailOpenTotal' = FailOpenTotal
        BY <3>0, <3>2 DEF Kinds, Before, Sends, Decides, GoesOn, Leaves
      <4>2. req'[r].verdict = "failopen" <=> req[r].verdict = "failopen"
        <5>1. req[r].pc = "wait" => req[r].verdict # "failopen"
          BY DEF LocalInv, Local, WalkLocal
        <5>2. CASE Decides(r)
          BY <5>1, <5>2 DEF Decides
        <5>3. CASE req'[r].verdict = req[r].verdict
          BY <5>3
        <5>4. CASE Before(r)
          <6>1. req[r].verdict # "failopen"
            BY <5>4 DEF Before, LocalInv, Local, WalkLocal
          <6> QED
            BY <5>4, <6>1 DEF Before
        <5> QED
          BY <3>0, <3>2, <5>2, <5>3, <5>4 DEF Kinds, Sends, GoesOn, Leaves
      <4>3. Opened' = Opened
        BY <3>0, <4>2 DEF Opened
      <4> QED
        BY <4>1, <4>3 DEF Counted
    <3> QED
      BY <3>1, <3>2
  <2> QED
    BY <2>1, <2>2 DEF Counted
<1>2. ASSUME Outside
      PROVE  Counted'
  <2>1. RepliesOnly /\ UNCHANGED <<inflight, FailOpenTotal>>
    BY <1>2, OutsideEffect
  <2>2. \A s \in Reqs : req'[s].slot = req[s].slot /\ req'[s].verdict = req[s].verdict
    BY <2>1 DEF RepliesOnly, SameButReply
  <2>3. Slots' = Slots /\ Opened' = Opened
    BY <2>2 DEF Slots, Opened
  <2> QED
    BY <2>1, <2>3 DEF Counted
<1> QED
  BY <1>1, <1>2, TwoSides
----------------------------------------------------------------------------
(* The nodes. *)

Primaries == {PrimaryBefore, PrimaryAfter}

\* A take is only applied at a primary, of now or of before the join: rings name
\* no other, and no call goes elsewhere.
PlaceInv ==
    /\ \A n \in Nodes : primary[n] \in Primaries
    /\ \A n \in Nodes : bucket[n] # Absent => n \in Primaries
    /\ \A r \in Reqs, i \in Attempts :
          call[r][i].inner = "sent" \/ call[r][i].outer = "fwd" => call[r][i].to \in Primaries

\* Every step outside applies a take at one primary, wipes one bucket, or leaves
\* all of them alone.
LEMMA BucketMoves ==
    ASSUME TypeOK, BucketInv, PlaceInv, Outside
    PROVE  \/ UNCHANGED <<bucket, charged, resets, crashes>>
           \/ /\ \E r \in Reqs, n \in Primaries, x \in Decisions : Taken(n, r, x)
              /\ UNCHANGED <<now, resets, crashes>>
           \/ \E n \in Nodes : Crash(n)
<1>1. ASSUME NEW r \in Reqs, NEW i \in Attempts, handleRateLimitTake(r, i)
      PROVE  \/ UNCHANGED <<bucket, charged, resets, crashes>>
             \/ (\E n \in Primaries, x \in Decisions : Taken(n, r, x)) /\ UNCHANGED <<now, resets, crashes>>
  <2>1. UNCHANGED <<now, resets, crashes>>
    BY <1>1 DEF handleRateLimitTake
  <2>2. Addrs[i] \in Nodes
    BY AttemptsProperties
  <2> QED
    BY <1>1, <2>1, <2>2, CoordinatorEffect DEF BucketsRest, PlaceInv
<1>2. ASSUME NEW r \in Reqs, NEW i \in Attempts, handleInternalRateLimitTake(r, i)
      PROVE  (\E n \in Primaries, x \in Decisions : Taken(n, r, x)) /\ UNCHANGED <<now, resets, crashes>>
  <2>1. UNCHANGED <<now, resets, crashes>>
    BY <1>2 DEF handleInternalRateLimitTake
  <2> QED
    BY <1>2, <2>1, PrimaryEffect DEF PlaceInv
<1>3. ASSUME NEW r \in Reqs, NEW i \in Attempts, Relay(r, i) \/ ForwardErr(r, i)
      PROVE  UNCHANGED <<bucket, charged, resets, crashes>>
  BY <1>3 DEF Relay, ForwardErr, cluster, past
<1>4. ASSUME Idle
      PROVE  UNCHANGED <<bucket, charged, resets, crashes>>
  BY <1>4 DEF Idle, past
<1>5. CASE \E r \in Reqs, i \in Attempts : handleRateLimitTake(r, i)
  BY <1>1, <1>5
<1>6. CASE \E r \in Reqs, i \in Attempts : handleInternalRateLimitTake(r, i)
  BY <1>2, <1>6
<1>7. CASE \E r \in Reqs, i \in Attempts : Relay(r, i) \/ ForwardErr(r, i)
  BY <1>3, <1>7
<1> QED
  BY <1>4, <1>5, <1>6, <1>7, IdleEffect DEF Outside

\* Buckets keep the limits of the middleware, and stay at the primaries.
LEMMA BucketStep ==
    ASSUME TypeOK, BucketInv, PlaceInv, [Next]_vars
    PROVE  /\ BucketInv' /\ bucket' \in [Nodes -> Bucket \cup {Absent}]
           /\ \A n \in Nodes : bucket'[n] # Absent => n \in Primaries
           /\ charged' \in [Reqs -> Nat] /\ crashes' \in Nat /\ resets' \in Nat
<1>0. /\ bucket \in [Nodes -> Bucket \cup {Absent}] /\ now \in Nat
      /\ charged \in [Reqs -> Nat] /\ crashes \in Nat /\ resets \in Nat
      /\ \A n \in Nodes : bucket[n] # Absent => bucket[n].lastRefill \in Nat
      /\ \A n \in Nodes : bucket[n] # Absent => n \in Primaries
  BY DEF TypeOK, Bucket, PlaceInv
<1>1. ASSUME UNCHANGED <<bucket, charged, resets, crashes>>, now' \in {now, now + 1}
      PROVE  /\ BucketInv' /\ bucket' \in [Nodes -> Bucket \cup {Absent}]
             /\ \A n \in Nodes : bucket'[n] # Absent => n \in Primaries
             /\ charged' \in [Reqs -> Nat] /\ crashes' \in Nat /\ resets' \in Nat
  <2>1. \A n \in Nodes : bucket[n] # Absent => bucket[n].lastRefill <= now'
    BY <1>0, <1>1 DEF BucketInv
  <2> QED
    BY <1>0, <1>1, <2>1 DEF BucketInv
<1>2. CASE \E r \in Reqs : Middleware(r)
  <2>1. UNCHANGED <<bucket, charged, resets, crashes, now>>
    BY <1>2, MiddlewareKinds DEF NodesRest, cluster, past
  <2> QED
    BY <1>1, <2>1
<1>3. CASE Outside
  <2>1. now' \in {now, now + 1}
    BY <1>3, OutsideEffect
  <2>2. ASSUME NEW r \in Reqs, NEW n \in Primaries, NEW x \in Decisions, Taken(n, r, x),
               UNCHANGED <<now, resets, crashes>>
        PROVE  /\ BucketInv' /\ bucket' \in [Nodes -> Bucket \cup {Absent}]
               /\ \A m \in Nodes : bucket'[m] # Absent => m \in Primaries
               /\ charged' \in [Reqs -> Nat] /\ crashes' \in Nat /\ resets' \in Nat
    <3>0. n \in Nodes
      BY NodesAssumption DEF Primaries
    <3>1. /\ bucket' \in [Nodes -> Bucket \cup {Absent}]
          /\ bucket'[n].rate = Rate /\ bucket'[n].burst = Burst /\ bucket'[n].lastRefill = now
          /\ bucket'[n].tokens <= Burst
          /\ \A m \in Nodes : m # n => bucket'[m] = bucket[m]
          /\ charged' \in [Reqs -> Nat]
      BY <2>2, <3>0, TakeEffect
    <3>2. BucketInv'
      <4> SUFFICES ASSUME NEW m \in Nodes, bucket'[m] # Absent
                   PROVE  /\ bucket'[m].rate = Rate /\ bucket'[m].burst = Burst
                          /\ bucket'[m].lastRefill <= now' /\ bucket'[m].tokens <= Burst
        BY DEF BucketInv
      <4>1. CASE m = n
        BY <1>0, <2>2, <3>1, <4>1
      <4>2. CASE m # n
        BY <2>2, <3>1, <4>2 DEF BucketInv
      <4> QED
        BY <4>1, <4>2
    <3> QED
      BY <1>0, <2>2, <3>1, <3>2
  <2>3. ASSUME NEW n \in Nodes, Crash(n)
        PROVE  /\ BucketInv' /\ bucket' \in [Nodes -> Bucket \cup {Absent}]
               /\ \A m \in Nodes : bucket'[m] # Absent => m \in Primaries
               /\ charged' \in [Reqs -> Nat] /\ crashes' \in Nat /\ resets' \in Nat
    <3>1. /\ bucket' = [bucket EXCEPT ![n] = Absent] /\ now' = now /\ charged' = charged
          /\ crashes' = crashes + 1 /\ resets' \in {resets, resets + 1}
      BY <2>3 DEF Crash
    <3>2. \A m \in Nodes : bucket'[m] # Absent => bucket'[m] = bucket[m]
      BY <1>0, <3>1
    <3>3. BucketInv'
      BY <3>1, <3>2 DEF BucketInv
    <3> QED
      BY <1>0, <3>1, <3>2, <3>3
  <2> QED
    BY <1>1, <1>3, <2>1, <2>2, <2>3, BucketMoves
<1> QED
  BY <1>2, <1>3, TwoSides
----------------------------------------------------------------------------
(* The calls. *)

\* The attempt at position i is still to come.
Fresh(q, i) ==
    \/ q.pc \in {"idle", "load", "cas"}
    \/ q.pc = "try" /\ i >= q.idx
    \/ q.pc = "wait" /\ i > q.idx

NoCall(c) == c.outer = "none" /\ c.inner = "none"

\* Attempt i of a request: it has not been sent too early, it is not forwarded
\* before it is received, and nothing of it is left when the decision is there.
CallLocal(q, i, c) ==
    /\ Fresh(q, i) => NoCall(c)
    /\ c.inner = "sent" => c.outer # "sent"
    /\ q.pc = "wait" /\ q.idx = i /\ q.reply \in Decisions => NoCall(c)

CallInv ==
    /\ \A r \in Reqs : req[r].pc # "wait" => req[r].reply = "none"
    /\ \A r \in Reqs, i \in Attempts : CallLocal(req[r], i, call[r][i])

\* The endpoint moves the call of one attempt, which there is, to o and e, and
\* answers x if somebody waits for it.
CallTurns(r, i, o, e, x) ==
    /\ ~NoCall(call[r][i])
    /\ CallMoves(r, i, o, e) /\ RepliesOnly
    /\ \A q \in Reqs : q # r => req'[q] = req[q]
    /\ req'[r].reply = IF Waiting(r, i) THEN x ELSE req[r].reply

\* One turn of a call keeps its invariant.
LEMMA TurnKeeps ==
    ASSUME TypeOK, CallInv, NEW r \in Reqs, NEW i \in Attempts,
           NEW o, NEW e, NEW x, CallTurns(r, i, o, e, x),
           e = "sent" => o # "sent",
           Waiting(r, i) /\ x \in Decisions => o = "none" /\ e = "none"
    PROVE  CallInv'
<1>0. /\ req \in [Reqs -> Request] /\ req' \in [Reqs -> Request]
      /\ \A q \in Reqs : SameButReply(req'[q], req[q])
      /\ \A q \in Reqs, j \in Attempts : q # r \/ j # i => call'[q][j] = call[q][j]
      /\ call'[r][i].outer = o /\ call'[r][i].inner = e
      /\ \A q \in Reqs : q # r => req'[q] = req[q]
  BY DEF TypeOK, CallTurns, RepliesOnly, CallMoves
<1>1. \A q \in Reqs : req'[q].pc = req[q].pc /\ req'[q].idx = req[q].idx
  BY <1>0 DEF SameButReply
<1>2. ASSUME NEW q \in Reqs, NEW j \in Attempts
      PROVE  CallLocal(req'[q], j, call'[q][j])
  <2>0. CallLocal(req[q], j, call[q][j])
    BY DEF CallInv
  <2>1. Fresh(req'[q], j) => Fresh(req[q], j)
    BY <1>1 DEF Fresh
  <2>2. CASE q # r
    BY <1>0, <2>0, <2>2
  <2>3. CASE q = r /\ j # i
    <3>1. call'[q][j] = call[q][j]
      BY <1>0, <2>3
    <3>2. req[q].pc = "wait" /\ req[q].idx = j => req'[q].reply = req[q].reply
      BY <2>3 DEF Waiting, CallTurns
    <3> QED
      BY <1>1, <2>0, <2>1, <3>1, <3>2 DEF CallLocal
  <2>4. CASE q = r /\ j = i
    <3>1. ~Fresh(req'[q], j)
      BY <2>0, <2>1, <2>4 DEF CallLocal, CallTurns
    <3>2. req'[q].pc = "wait" /\ req'[q].idx = j => req'[q].reply = x /\ Waiting(r, i)
      BY <1>1, <2>4 DEF Waiting, CallTurns
    <3> QED
      BY <1>0, <2>4, <3>1, <3>2 DEF CallLocal, NoCall
  <2> QED
    BY <2>2, <2>3, <2>4
<1>3. ASSUME NEW q \in Reqs, req'[q].pc # "wait"
      PROVE  req'[q].reply = "none"
  <2>1. req[q].reply = "none" /\ req[q].pc # "wait"
    BY <1>1, <1>3 DEF CallInv
  <2>2. req'[q].reply = req[q].reply
    BY <1>0, <2>1 DEF CallTurns, Waiting
  <2> QED
    BY <2>1, <2>2
<1> QED
  BY <1>2, <1>3 DEF CallInv

\* A step outside that leaves the requests alone says nothing new to them.
LEMMA SilentTurn ==
    ASSUME TypeOK, CallInv, NEW r \in Reqs, NEW i \in Attempts,
           NEW o, NEW e, CallMoves(r, i, o, e), req' = req, ~NoCall(call[r][i])
    PROVE  /\ CallTurns(r, i, o, e, req[r].reply)
           /\ ~(Waiting(r, i) /\ req[r].reply \in Decisions)
<1>1. RepliesOnly
  BY NoReply
<1>2. CallLocal(req[r], i, call[r][i])
  BY DEF CallInv
<1> QED
  BY <1>1, <1>2 DEF CallTurns, CallLocal, Waiting

\* Calls stay in order.
LEMMA CallStep ==
    ASSUME TypeOK, BucketInv, LocalInv, CallInv, [Next]_vars
    PROVE  CallInv'
<1>0. req \in [Reqs -> Request] /\ req' \in [Reqs -> Request]
  BY LocalStep DEF TypeOK
<1>1. ASSUME NEW r \in Reqs, Middleware(r)
      PROVE  CallInv'
  <2>0. /\ Kinds(r) /\ \A s \in Reqs : s # r => req'[s] = req[s]
    BY <1>0, <1>1, MiddlewareKinds, MiddlewareLocal
  <2>1. \A s \in Reqs : s # r => call'[s] = call[s]
    <3>1. call \in [Reqs -> [Attempts -> Call]]
      BY DEF TypeOK
    <3>2. ASSUME NEW s \in Reqs, s # r, Sends(r)
          PROVE  call'[s] = call[s]
      <4>1. /\ call' \in [Reqs -> [Attempts -> Call]]
            /\ \A j \in Attempts : call'[s][j] = call[s][j]
        BY <3>2 DEF Sends, CallMoves
      <4> QED
        BY <3>1, <4>1
    <3> QED
      BY <2>0, <3>2 DEF Kinds, Before, Decides, GoesOn, Opens, Leaves
  <2>2. req'[r].pc # "wait" => req'[r].reply = "none"
    <3>1. req[r].pc # "wait" => req[r].reply = "none"
      BY DEF CallInv
    <3> QED
      BY <2>0, <3>1 DEF Kinds, Before, Sends, Decides, GoesOn, Opens, Leaves
  <2>3. ASSUME NEW j \in Attempts
        PROVE  CallLocal(req'[r], j, call'[r][j])
    <3>0. /\ CallLocal(req[r], j, call[r][j]) /\ Local(req[r], dryRun)
          /\ j \in 1 .. Len(Addrs) /\ Len(Addrs) \in Nat /\ req[r].idx \in Nat
      BY <1>0, AttemptsProperties DEF CallInv, LocalInv, Request
    <3>1. CASE Sends(r)
      <4>0. /\ req[r].pc = "try" /\ req'[r].pc = "wait" /\ req'[r].idx = req[r].idx
            /\ req'[r].reply = "none"
            /\ call'[r][req[r].idx].inner = call[r][req[r].idx].inner
            /\ j # req[r].idx => call'[r][j] = call[r][j]
        BY <3>1 DEF Sends, CallInv, CallMoves
      <4>1. Fresh(req'[r], j) => Fresh(req[r], j) /\ j # req[r].idx
        BY <3>0, <4>0 DEF Fresh
      <4>2. CASE j # req[r].idx
        BY <3>0, <4>0, <4>1, <4>2 DEF CallLocal, Decisions
      <4>3. CASE j = req[r].idx
        <5>1. Fresh(req[r], j)
          BY <3>0, <4>0, <4>3 DEF Fresh
        <5>2. call'[r][j].inner = "none"
          BY <3>0, <4>0, <4>3, <5>1 DEF CallLocal, NoCall
        <5> QED
          BY <4>0, <4>1, <4>3, <5>2 DEF CallLocal, Decisions
      <4> QED
        BY <4>2, <4>3
    <3>2. CASE ~Sends(r)
      <4>1. call' = call /\ req'[r].pc # "wait"
        BY <2>0, <3>2 DEF Kinds, Before, Decides, GoesOn, Opens, Leaves
      <4>2. Fresh(req'[r], j) => Fresh(req[r], j)
        <5>1. CASE Before(r)
          BY <5>1 DEF Before, Fresh
        <5>2. CASE GoesOn(r)
          <6>1. /\ req[r].idx \in 1 .. Len(Addrs) /\ req[r].pc = "wait" /\ req'[r].pc = "try"
                /\ req'[r].idx \in {req[r].idx + 1, Len(Addrs) + 1}
            BY <3>0, <5>2, AttemptsProperties DEF GoesOn, Local, WalkLocal
          <6> QED
            BY <3>0, <6>1 DEF Fresh
        <5>3. CASE Decides(r) \/ Opens(r) \/ Leaves(r)
          BY <5>3 DEF Decides, Opens, Leaves, Fresh
        <5> QED
          BY <2>0, <3>2, <5>1, <5>2, <5>3 DEF Kinds
      <4> QED
        BY <3>0, <4>1, <4>2 DEF CallLocal
    <3> QED
      BY <3>1, <3>2
  <2>4. ASSUME NEW s \in Reqs, NEW j \in Attempts
        PROVE  CallLocal(req'[s], j, call'[s][j])
    BY <2>0, <2>1, <2>3 DEF CallInv
  <2>5. ASSUME NEW s \in Reqs, req'[s].pc # "wait"
        PROVE  req'[s].reply = "none"
    BY <2>0, <2>2, <2>5 DEF CallInv
  <2> QED
    BY <2>4, <2>5 DEF CallInv
<1>2. ASSUME NEW r \in Reqs, NEW i \in Attempts, handleRateLimitTake(r, i)
      PROVE  CallInv'
  <2>0. ~NoCall(call[r][i])
    BY <1>2, CoordinatorEffect DEF NoCall
  <2>1. ASSUME NEW x \in Decisions, CallMoves(r, i, "none", "none"),
               RepliesOnly, \A q \in Reqs : q # r => req'[q] = req[q],
               req'[r].reply = IF Waiting(r, i) THEN x ELSE req[r].reply
        PROVE  CallInv'
    <3>1. CallTurns(r, i, "none", "none", x)
      BY <2>0, <2>1 DEF CallTurns
    <3> QED
      BY <3>1, TurnKeeps
  <2>2. CASE CallMoves(r, i, "fwd", "sent") /\ req' = req
    BY <2>0, <2>2, SilentTurn, TurnKeeps
  <2> QED
    BY <1>2, <2>1, <2>2, CoordinatorEffect
<1>3. ASSUME NEW r \in Reqs, NEW i \in Attempts, handleInternalRateLimitTake(r, i)
      PROVE  CallInv'
  <2>0. ~NoCall(call[r][i]) /\ req' = req
    BY <1>3, PrimaryEffect DEF NoCall
  <2>1. ASSUME NEW o, NEW e, CallMoves(r, i, o, e), e # "sent"
        PROVE  CallInv'
    BY <2>0, <2>1, SilentTurn, TurnKeeps
  <2>2. \A x \in Decisions : x # "sent"
    BY DEF Decisions
  <2> QED
    BY <1>3, <2>1, <2>2, PrimaryEffect
<1>4. ASSUME NEW r \in Reqs, NEW i \in Attempts, Relay(r, i)
      PROVE  CallInv'
  <2>1. CallTurns(r, i, "none", "none", call[r][i].inner)
    BY <1>4, RelayEffect DEF CallTurns, NoCall
  <2> QED
    BY <2>1, TurnKeeps
<1>5. ASSUME NEW r \in Reqs, NEW i \in Attempts, ForwardErr(r, i)
      PROVE  CallInv'
  <2> DEFINE e == IF call[r][i].inner = "sent" THEN "sent" ELSE "none"
  <2>1. CallTurns(r, i, "none", e, "error")
    BY <1>5, ForwardErrEffect DEF CallTurns, NoCall
  <2> HIDE DEF e
  <2> QED
    BY <2>1, TurnKeeps DEF Decisions
<1>6. ASSUME NEW n \in Nodes, Crash(n)
      PROVE  CallInv'
  <2>0. RepliesOnly /\ CallsCut(n)
    BY <1>6, CrashEffect
  <2>1. \A q \in Reqs : req'[q].pc = req[q].pc /\ req'[q].idx = req[q].idx
    BY <2>0 DEF RepliesOnly, SameButReply
  <2>2. ASSUME NEW q \in Reqs, NEW j \in Attempts
        PROVE  CallLocal(req'[q], j, call'[q][j])
    <3>0. /\ CallLocal(req[q], j, call[q][j])
          /\ call'[q][j].outer \in {"none", call[q][j].outer}
          /\ \/ call'[q][j].inner = call[q][j].inner
             \/ call[q][j].inner = "sent" /\ call'[q][j].inner = "lost"
          /\ req'[q].reply \in {"error", req[q].reply}
      BY <2>0 DEF CallInv, CallsCut
    <3>1. Fresh(req'[q], j) => Fresh(req[q], j)
      BY <2>1 DEF Fresh
    <3>2. NoCall(call[q][j]) => NoCall(call'[q][j])
      BY <3>0 DEF NoCall
    <3>3. req'[q].reply \in Decisions => req[q].reply \in Decisions
      BY <3>0 DEF Decisions
    <3> QED
      BY <2>1, <3>0, <3>1, <3>2, <3>3 DEF CallLocal
  <2>3. ASSUME NEW q \in Reqs, req'[q].pc # "wait"
        PROVE  req'[q].reply = "none"
    BY <2>0, <2>1, <2>3 DEF CallsCut, CallInv
  <2> QED
    BY <2>2, <2>3 DEF CallInv
<1>7. ASSUME Idle
      PROVE  CallInv'
  BY <1>7 DEF Idle, CallInv
<1>8. ASSUME Outside
      PROVE  CallInv'
  BY <1>2, <1>3, <1>4, <1>5, <1>6, <1>7, <1>8, IdleEffect DEF Outside
<1> QED
  BY <1>1, <1>8, TwoSides
----------------------------------------------------------------------------
(* All of it together. *)

\* Rings name no third primary, and no call goes to one.
LEMMA PlaceStep ==
    ASSUME TypeOK, BucketInv, PlaceInv, [Next]_vars
    PROVE  PlaceInv' /\ primary' \in [Nodes -> Nodes]
<1>0. /\ primary \in [Nodes -> Nodes] /\ PrimaryBefore \in Nodes /\ PrimaryAfter \in Nodes
      /\ \A n \in Nodes : primary[n] \in Primaries
      /\ \A n \in Nodes : FirstPrimary(n) \in Primaries /\ FirstPrimary(n) \in Nodes
      /\ PrimaryAfter \in Primaries
  BY NodesAssumption DEF TypeOK, PlaceInv, Primaries, FirstPrimary
<1>1. primary' \in [Nodes -> Nodes] /\ \A n \in Nodes : primary'[n] \in Primaries
  <2>1. CASE UNCHANGED primary
    BY <1>0, <2>1
  <2>2. CASE \E n \in Nodes : join(n)
    BY <1>0, <2>2 DEF join
  <2>3. CASE \E n \in Nodes : Restart(n)
    BY <1>0, <2>3 DEF Restart
  <2>4. CASE \E r \in Reqs : Middleware(r)
    BY <2>1, <2>4, MiddlewareKinds DEF NodesRest, cluster
  <2>5. CASE \E n \in Nodes : Crash(n)
    BY <2>1, <2>5 DEF Crash
  <2>6. CASE \E r \in Reqs, i \in Attempts : \/ handleRateLimitTake(r, i)
                                             \/ handleInternalRateLimitTake(r, i)
                                             \/ Relay(r, i) \/ ForwardErr(r, i)
    BY <2>1, <2>6 DEF handleRateLimitTake, handleInternalRateLimitTake, Relay, ForwardErr, cluster
  <2>7. CASE TimePasses \/ Answered \/ UNCHANGED vars
    BY <2>1, <2>7 DEF TimePasses, Answered, vars, cluster
  <2> QED
    BY <2>2, <2>3, <2>4, <2>5, <2>6, <2>7, TwoSides DEF Outside
<1> DEFINE There(c) == c.inner = "sent" \/ c.outer = "fwd" => c.to \in Primaries
           Kept == \A r \in Reqs, i \in Attempts : There(call'[r][i])
<1>2. \A r \in Reqs, i \in Attempts : There(call[r][i])
  BY DEF PlaceInv
<1>3. ASSUME NEW r \in Reqs, NEW i \in Attempts, NEW o, NEW e, CallMoves(r, i, o, e),
             e = "sent" \/ o = "fwd" => call'[r][i].to \in Primaries
      PROVE  Kept
  BY <1>2, <1>3 DEF CallMoves
<1>4. ASSUME NEW r \in Reqs, Middleware(r)
      PROVE  Kept
  <2>1. CASE Sends(r)
    BY <1>2, <1>3, <2>1 DEF Sends
  <2>2. CASE call' = call
    BY <1>2, <2>2
  <2> QED
    BY <1>4, <2>1, <2>2, MiddlewareKinds DEF Kinds, Before, Decides, GoesOn, Opens, Leaves
<1>5. ASSUME NEW r \in Reqs, NEW i \in Attempts, handleRateLimitTake(r, i)
      PROVE  Kept
  <2>1. primary[Addrs[i]] \in Primaries
    BY <1>0, AttemptsProperties
  <2> QED
    BY <1>3, <1>5, <2>1, CoordinatorEffect
<1>6. ASSUME NEW r \in Reqs, NEW i \in Attempts, handleInternalRateLimitTake(r, i)
      PROVE  Kept
  <2>1. (\A x \in Decisions : x # "sent") /\ call[r][i].to \in Primaries
    BY <1>6, PrimaryEffect DEF Decisions, PlaceInv
  <2> QED
    BY <1>3, <1>6, <2>1, PrimaryEffect
<1>7. ASSUME NEW r \in Reqs, NEW i \in Attempts, Relay(r, i)
      PROVE  Kept
  BY <1>3, <1>7, RelayEffect
<1>8. ASSUME NEW r \in Reqs, NEW i \in Attempts, ForwardErr(r, i)
      PROVE  Kept
  <2>1. PICK e \in {"none", "sent"} : e = IF call[r][i].inner = "sent" THEN "sent" ELSE "none"
    OBVIOUS
  <2>2. CallMoves(r, i, "none", e) /\ (e = "sent" => call'[r][i].to = call[r][i].to /\ call[r][i].inner = "sent")
    BY <1>8, <2>1, ForwardErrEffect
  <2> QED
    BY <1>2, <1>3, <2>2
<1>9. ASSUME NEW n \in Nodes, Crash(n)
      PROVE  Kept
  BY <1>2, <1>9, CrashEffect DEF CallsCut
<1>10. ASSUME Idle
       PROVE  Kept
  BY <1>2, <1>10 DEF Idle
<1>11. Kept
  <2> HIDE DEF Kept
  <2>1. ASSUME Outside PROVE Kept
    BY <1>5, <1>6, <1>7, <1>8, <1>9, <1>10, <2>1, IdleEffect DEF Outside
  <2> QED
    BY <1>4, <2>1, TwoSides
<1> QED
  BY <1>1, <1>11, BucketStep DEF PlaceInv

\* What holds of the counters, the requests, the calls and the nodes.
BaseInv == TypeOK /\ BucketInv /\ PlaceInv /\ LocalInv /\ Counted /\ CallInv

\* Types are kept.
LEMMA TypeStep ==
    ASSUME BaseInv, [Next]_vars
    PROVE  TypeOK'
<1> USE DEF BaseInv
<1>1. req' \in [Reqs -> Request] /\ Counted'
  BY LocalStep, CountedStep
<1>2. inflight' \in Nat /\ FailOpenTotal' \in Nat
  <2>1. IsFiniteSet(Slots') /\ IsFiniteSet(Opened')
    BY NodesAssumption, FS_Subset DEF Slots, Opened
  <2>2. Cardinality(Slots') \in Nat /\ Cardinality(Opened') \in Nat
    BY <2>1, FS_CardinalityType
  <2> QED
    BY <1>1, <2>2 DEF Counted
<1>3. /\ bucket' \in [Nodes -> Bucket \cup {Absent}]
      /\ \A n \in Nodes : bucket'[n] # Absent => bucket'[n].tokens <= Burst
      /\ charged' \in [Reqs -> Nat] /\ crashes' \in Nat /\ resets' \in Nat
  BY BucketStep DEF BucketInv
<1>4. primary' \in [Nodes -> Nodes]
  BY PlaceStep
<1>5. call' \in [Reqs -> [Attempts -> Call]] /\ dryRun' \in BOOLEAN /\ now' \in 1 .. MaxTime
  <2>0. /\ call \in [Reqs -> [Attempts -> Call]] /\ dryRun \in BOOLEAN /\ now \in 1 .. MaxTime
        /\ MaxTime \in Nat
    BY ConfigNumbers DEF TypeOK
  <2>1. ASSUME NEW r \in Reqs, Middleware(r)
        PROVE  call' \in [Reqs -> [Attempts -> Call]] /\ UNCHANGED <<dryRun, now>>
    <3>1. Kinds(r) /\ UNCHANGED <<dryRun, now>>
      BY <2>1, MiddlewareKinds DEF NodesRest
    <3> QED
      BY <2>0, <3>1 DEF Kinds, Before, Sends, Decides, GoesOn, Opens, Leaves, CallMoves
  <2>2. ASSUME Outside
        PROVE  /\ call' \in [Reqs -> [Attempts -> Call]] /\ UNCHANGED dryRun
               /\ now' \in 1 .. MaxTime
    <3>1. /\ call' \in [Reqs -> [Attempts -> Call]] /\ UNCHANGED dryRun
          /\ now' \in {now, now + 1} /\ (now' # now => TimePasses)
      BY <2>2, OutsideEffect
    <3>2. now' # now => now < MaxTime
      BY <3>1 DEF TimePasses
    <3> QED
      BY <2>0, <3>1, <3>2
  <2>3. CASE \E r \in Reqs : Middleware(r)
    BY <2>0, <2>1, <2>3
  <2>4. CASE Outside
    BY <2>0, <2>2, <2>4
  <2> QED
    BY <2>3, <2>4, TwoSides
<1>6. up' \in SUBSET Nodes /\ marked' \in [Nodes -> SUBSET Nodes]
  <2>0. up \in SUBSET Nodes /\ marked \in [Nodes -> SUBSET Nodes]
    BY DEF TypeOK
  <2>1. CASE UNCHANGED <<up, marked>>
    BY <2>0, <2>1
  <2>2. CASE \E r \in Reqs : Middleware(r)
    BY <2>1, <2>2, MiddlewareKinds DEF NodesRest, cluster
  <2>3. CASE \E r \in Reqs, i \in Attempts : \/ handleRateLimitTake(r, i)
                                             \/ handleInternalRateLimitTake(r, i)
                                             \/ Relay(r, i)
    BY <2>1, <2>3 DEF handleRateLimitTake, handleInternalRateLimitTake, Relay, cluster
  <2>4. ASSUME NEW r \in Reqs, NEW i \in Attempts, ForwardErr(r, i)
        PROVE  up' \in SUBSET Nodes /\ marked' \in [Nodes -> SUBSET Nodes]
    <3>1. UNCHANGED up /\ markDown(Addrs[i], call[r][i].to) /\ Addrs[i] \in Nodes
      BY <2>4, AttemptsProperties DEF ForwardErr
    <3>2. call[r][i].to \in Nodes
      <4>1. call[r][i].to \in Primaries
        BY <2>4 DEF ForwardErr, PlaceInv
      <4> QED
        BY <4>1, NodesAssumption DEF Primaries
    <3> QED
      BY <2>0, <3>1, <3>2 DEF markDown
  <2>5. CASE \E n \in Nodes : join(n) \/ Crash(n) \/ Restart(n)
    BY <2>0, <2>5 DEF join, Crash, Restart
  <2>6. CASE TimePasses \/ Answered \/ UNCHANGED vars
    BY <2>1, <2>6 DEF TimePasses, Answered, vars, cluster
  <2> QED
    BY <2>2, <2>3, <2>4, <2>5, <2>6, TwoSides DEF Outside
<1> QED
  BY <1>1, <1>2, <1>3, <1>4, <1>5, <1>6 DEF TypeOK

\* So it is in the beginning ...
LEMMA BaseInit ==
    ASSUME Init
    PROVE  BaseInv
<1> DEFINE q0 == [pc |-> "idle", cur |-> 0, slot |-> FALSE, idx |-> 0, deadline |-> 0,
                  reply |-> "none", verdict |-> "none", began |-> 0, lost |-> {}, hung |-> FALSE]
           c0 == [outer |-> "none", to |-> Absent, inner |-> "none"]
<1>1. \A r \in Reqs : req[r] = q0
  BY DEF Init
<1>2. \A r \in Reqs, i \in Attempts : call[r][i] = c0
  BY DEF Init
<1>3. \A n \in Nodes : bucket[n] = Absent /\ primary[n] = FirstPrimary(n)
  BY DEF Init
<1>4. q0 \in Request /\ c0 \in Call
  BY DEF Request, Call
<1>5. TypeOK
  <2>1. now \in 1 .. MaxTime
    <3>1. LastArrival \in Nat \ {0} /\ Len(Addrs) * Timeout \in Nat
      BY ConfigNumbers
    <3> QED
      BY <3>1 DEF Init, MaxTime
  <2>2. req \in [Reqs -> Request] /\ call \in [Reqs -> [Attempts -> Call]]
    BY <1>4 DEF Init
  <2>3. primary \in [Nodes -> Nodes]
    BY NodesAssumption DEF Init, FirstPrimary
  <2> QED
    BY <1>3, <2>1, <2>2, <2>3 DEF TypeOK, Init
<1>6. BucketInv
  BY <1>3 DEF BucketInv
<1>7. PlaceInv
  BY <1>2, <1>3 DEF PlaceInv, FirstPrimary, Primaries
<1>8. LocalInv
  BY <1>1 DEF LocalInv, Local, SlotLocal, WalkLocal
<1>9. Counted
  <2>1. Slots = {} /\ Opened = {}
    BY <1>1 DEF Slots, Opened
  <2> QED
    BY <2>1, FS_EmptySet, ConfigNumbers DEF Init, Counted
<1>10. CallInv
  BY <1>1, <1>2 DEF CallInv, CallLocal, NoCall, Decisions
<1> QED
  BY <1>5, <1>6, <1>7, <1>8, <1>9, <1>10 DEF BaseInv

\* ... and so it stays.
LEMMA BaseStep ==
    ASSUME BaseInv, [Next]_vars
    PROVE  BaseInv'
BY TypeStep, BucketStep, PlaceStep, LocalStep, CountedStep, CallStep DEF BaseInv

\* The base invariant holds throughout.
LEMMA BaseAlways == Spec => []BaseInv
<1>1. Init => BaseInv
  BY BaseInit
<1>2. BaseInv /\ [Next]_vars => BaseInv'
  BY BaseStep
<1> QED
  BY <1>1, <1>2, PTL DEF Spec

\* Every variable of the middleware, the calls and the nodes keeps its type, and
\* no bucket holds more than the burst, however the refills are rounded.
THEOREM TypeCorrect == Spec => []TypeOK
<1>1. BaseInv => TypeOK
  BY DEF BaseInv
<1> QED
  BY <1>1, BaseAlways, PTL

\* acquireInflight and its deferred release count the requests that hold a slot,
\* and let no more than MaxInFlight in, for any number of concurrent requests.
THEOREM InFlightBounded == Spec => []SlotsHeld
<1>1. BaseInv => SlotsHeld
  BY DEF BaseInv, Counted, Slots, SlotsHeld, LocalInv, Local, SlotLocal
<1> QED
  BY <1>1, BaseAlways, PTL

\* The middleware lets a request through without an answer only if Client.Take
\* has had every address fail, or the client has gone, and counts it.
THEOREM FailOpenIsLastResort == Spec => []FailOpenJustified
<1>1. BaseInv => FailOpenJustified
  BY DEF BaseInv, Counted, Opened, FailOpenJustified, LocalInv, Local, WalkLocal
<1> QED
  BY <1>1, BaseAlways, PTL

----------------------------------------------------------------------------
(* What a request is charged for. *)

\* The attempts that may still be charged, and those that were denied.
OpenOf(cs) == {i \in Attempts : cs[i].outer = "sent" \/ cs[i].inner = "sent"}

DeniedOf(q, cs) ==
    {i \in Attempts : \/ cs[i].inner = "denied"
                      \/ q.pc = "wait" /\ q.idx = i /\ q.reply = "denied"}

\* What a request may have been charged for.
Budget(q) ==
    Cardinality(q.lost) + (IF q.pc = "wait" THEN 1 ELSE 0)
                        + (IF q.verdict = "allowed" THEN 1 ELSE 0)

\* No attempt is charged twice, and none that was denied: what was charged and
\* what may still be is within the budget.
ChargeLocal(n, q, cs) ==
    n + Cardinality(OpenOf(cs)) + Cardinality(DeniedOf(q, cs)) <= Budget(q)

ChargeInv == \A r \in Reqs : ChargeLocal(charged[r], req[r], call[r])

\* Sets that differ by an element at most.
LEMMA OneMore ==
    ASSUME NEW S, IsFiniteSet(S), NEW T, NEW x, T \subseteq S \cup {x}
    PROVE  /\ IsFiniteSet(T) /\ Cardinality(T) \in Nat /\ Cardinality(S) \in Nat
           /\ Cardinality(T) <= Cardinality(S) + 1
<1>1. IsFiniteSet(S \cup {x}) /\ Cardinality(S \cup {x}) \in Nat /\ Cardinality(S) \in Nat
  BY FS_AddElement, FS_CardinalityType
<1>2. IsFiniteSet(T) /\ Cardinality(T) <= Cardinality(S \cup {x})
  BY <1>1, FS_Subset
<1>3. Cardinality(T) \in Nat
  BY <1>2, FS_CardinalityType
<1>4. CASE x \in S
  <2>1. T \subseteq S
    BY <1>4
  <2>2. Cardinality(T) <= Cardinality(S)
    BY <2>1, FS_Subset
  <2> QED
    BY <1>1, <1>2, <1>3, <2>2
<1>5. CASE x \notin S
  <2>1. Cardinality(S \cup {x}) = Cardinality(S) + 1
    BY <1>5, FS_AddElement, Zenon
  <2> QED
    BY <1>1, <1>2, <1>3, <2>1
<1> QED
  BY <1>4, <1>5

\* A subset that misses a member is smaller by at least one.
LEMMA OneLess ==
    ASSUME NEW S, IsFiniteSet(S), NEW T, NEW x \in S, T \subseteq S \ {x}
    PROVE  /\ IsFiniteSet(T) /\ Cardinality(T) \in Nat /\ Cardinality(S) \in Nat
           /\ Cardinality(T) + 1 <= Cardinality(S)
<1>1. IsFiniteSet(S \ {x}) /\ Cardinality(S \ {x}) = Cardinality(S) - 1 /\ Cardinality(S) \in Nat
  <2>1. Cardinality(S \ {x}) = Cardinality(S) - 1 /\ IsFiniteSet(S \ {x})
    BY FS_RemoveElement, Zenon
  <2> QED
    BY <2>1, FS_CardinalityType
<1>2. IsFiniteSet(T) /\ Cardinality(T) <= Cardinality(S \ {x})
  BY <1>1, FS_Subset
<1>3. Cardinality(T) \in Nat
  BY <1>2, FS_CardinalityType
<1> QED
  BY <1>1, <1>2, <1>3

\* A subset is no larger.
LEMMA NoMore ==
    ASSUME NEW S, IsFiniteSet(S), NEW T, T \subseteq S
    PROVE  /\ IsFiniteSet(T) /\ Cardinality(T) \in Nat /\ Cardinality(S) \in Nat
           /\ Cardinality(T) <= Cardinality(S)
BY FS_Subset, FS_CardinalityType

\* There are finitely many attempts.
LEMMA AttemptSets ==
    ASSUME NEW q \in Request, NEW cs
    PROVE  /\ IsFiniteSet(OpenOf(cs)) /\ IsFiniteSet(DeniedOf(q, cs)) /\ IsFiniteSet(q.lost)
           /\ Cardinality(OpenOf(cs)) \in Nat /\ Cardinality(DeniedOf(q, cs)) \in Nat
           /\ Cardinality(q.lost) \in Nat
<1>1. /\ OpenOf(cs) \subseteq Attempts /\ DeniedOf(q, cs) \subseteq Attempts
      /\ q.lost \subseteq Attempts /\ IsFiniteSet(Attempts)
  BY AttemptsProperties DEF OpenOf, DeniedOf, Request
<1> QED
  BY <1>1, NoMore

\* A request moves on without being charged.
LEMMA BudgetKept ==
    ASSUME NEW p \in Request, NEW q \in Request, NEW cs, NEW ds, NEW n \in Nat,
           ChargeLocal(n, p, cs), Budget(q) = Budget(p),
           OpenOf(ds) \subseteq OpenOf(cs), DeniedOf(q, ds) \subseteq DeniedOf(p, cs)
    PROVE  ChargeLocal(n, q, ds)
<1>1. /\ Cardinality(OpenOf(ds)) <= Cardinality(OpenOf(cs))
      /\ Cardinality(DeniedOf(q, ds)) <= Cardinality(DeniedOf(p, cs))
  BY AttemptSets, NoMore
<1>2. /\ Cardinality(OpenOf(cs)) \in Nat /\ Cardinality(DeniedOf(p, cs)) \in Nat
      /\ Cardinality(OpenOf(ds)) \in Nat /\ Cardinality(DeniedOf(q, ds)) \in Nat
      /\ Cardinality(p.lost) \in Nat
  BY AttemptSets
<1>3. Budget(p) \in Nat
  BY <1>2 DEF Budget
<1> QED
  BY <1>1, <1>2, <1>3 DEF ChargeLocal

\* A take is applied for an attempt that is open: it is charged or denied.
LEMMA TakeSpends ==
    ASSUME NEW p \in Request, NEW q \in Request, NEW cs, NEW ds, NEW n \in Nat, NEW m \in Nat,
           ChargeLocal(n, p, cs), Budget(q) = Budget(p),
           NEW i \in OpenOf(cs), OpenOf(ds) \subseteq OpenOf(cs) \ {i},
           \/ m = n + 1 /\ DeniedOf(q, ds) \subseteq DeniedOf(p, cs)
           \/ m = n /\ DeniedOf(q, ds) \subseteq DeniedOf(p, cs) \cup {i}
    PROVE  ChargeLocal(m, q, ds)
<1>2. /\ Cardinality(OpenOf(cs)) \in Nat /\ Cardinality(DeniedOf(p, cs)) \in Nat
      /\ Cardinality(OpenOf(ds)) \in Nat /\ Cardinality(DeniedOf(q, ds)) \in Nat
      /\ Cardinality(p.lost) \in Nat
      /\ IsFiniteSet(OpenOf(cs)) /\ IsFiniteSet(DeniedOf(p, cs))
  BY AttemptSets
<1>3. Budget(p) \in Nat
  BY <1>2 DEF Budget
<1>4. Cardinality(OpenOf(ds)) + 1 <= Cardinality(OpenOf(cs))
  BY <1>2, OneLess
<1>5. CASE m = n + 1 /\ DeniedOf(q, ds) \subseteq DeniedOf(p, cs)
  <2>1. Cardinality(DeniedOf(q, ds)) <= Cardinality(DeniedOf(p, cs))
    BY <1>2, <1>5, NoMore
  <2> QED
    BY <1>2, <1>3, <1>4, <1>5, <2>1 DEF ChargeLocal
<1>6. CASE m = n /\ DeniedOf(q, ds) \subseteq DeniedOf(p, cs) \cup {i}
  <2>1. Cardinality(DeniedOf(q, ds)) <= Cardinality(DeniedOf(p, cs)) + 1
    BY <1>2, <1>6, OneMore
  <2> QED
    BY <1>2, <1>3, <1>4, <1>6, <2>1 DEF ChargeLocal
<1> QED
  BY <1>5, <1>6

\* How one turn of a call moves its attempt between the sets.
LEMMA TurnSets ==
    ASSUME TypeOK, NEW r \in Reqs, NEW i \in Attempts, NEW o, NEW e, NEW x, CallTurns(r, i, o, e, x)
    PROVE  /\ o # "sent" /\ e # "sent" => OpenOf(call'[r]) \subseteq OpenOf(call[r]) \ {i}
           /\ i \in OpenOf(call[r]) => OpenOf(call'[r]) \subseteq OpenOf(call[r])
           /\ DeniedOf(req'[r], call'[r]) \subseteq DeniedOf(req[r], call[r]) \cup {i}
           /\ \/ e # "denied" /\ ~(Waiting(r, i) /\ x = "denied")
              \/ i \in DeniedOf(req[r], call[r])
              => DeniedOf(req'[r], call'[r]) \subseteq DeniedOf(req[r], call[r])
<1>1. /\ \A j \in Attempts : j # i => call'[r][j] = call[r][j]
      /\ call'[r][i].outer = o /\ call'[r][i].inner = e
      /\ req'[r].pc = req[r].pc /\ req'[r].idx = req[r].idx
      /\ req'[r].reply = IF Waiting(r, i) THEN x ELSE req[r].reply
  BY DEF CallTurns, CallMoves, RepliesOnly, SameButReply
<1>2. ASSUME NEW j \in DeniedOf(req'[r], call'[r]), j # i
      PROVE  j \in DeniedOf(req[r], call[r])
  <2>1. j \in Attempts /\ call'[r][j] = call[r][j]
    BY <1>1, <1>2 DEF DeniedOf
  <2>2. req[r].pc = "wait" /\ req[r].idx = j => req'[r].reply = req[r].reply
    BY <1>1, <1>2 DEF Waiting
  <2> QED
    BY <1>1, <1>2, <2>1, <2>2 DEF DeniedOf
<1>3. ASSUME NEW j \in OpenOf(call'[r]), j # i
      PROVE  j \in OpenOf(call[r])
  BY <1>1, <1>3 DEF OpenOf
<1>4. o # "sent" /\ e # "sent" => i \notin OpenOf(call'[r])
  BY <1>1 DEF OpenOf
<1>5. e # "denied" /\ ~(Waiting(r, i) /\ x = "denied") => i \notin DeniedOf(req'[r], call'[r])
  BY <1>1 DEF DeniedOf, Waiting
<1> QED
  BY <1>2, <1>3, <1>4, <1>5

\* Requests that a step outside leaves alone keep their budget.
LEMMA BudgetSame ==
    ASSUME NEW p, NEW q, SameButReply(q, p)
    PROVE  Budget(q) = Budget(p)
BY DEF SameButReply, Budget

\* What a step outside charges.
LEMMA OutsideCharges ==
    ASSUME BaseInv, ChargeInv, Outside
    PROVE  ChargeInv'
<1> USE DEF BaseInv
<1>0. /\ \A s \in Reqs : charged[s] \in Nat /\ req[s] \in Request
      /\ \A s \in Reqs : req'[s] \in Request /\ Budget(req'[s]) = Budget(req[s])
  <2>1. RepliesOnly
    BY OutsideEffect
  <2> QED
    BY <2>1, BudgetSame DEF RepliesOnly, TypeOK
<1>1. ASSUME NEW r \in Reqs, NEW i \in Attempts, NEW o, NEW e, NEW x, CallTurns(r, i, o, e, x),
             \A s \in Reqs : s # r => charged'[s] = charged[s],
             ChargeLocal(charged'[r], req'[r], call'[r])
      PROVE  ChargeInv'
  <2>1. ASSUME NEW s \in Reqs, s # r
        PROVE  ChargeLocal(charged'[s], req'[s], call'[s])
    <3>1. req'[s] = req[s] /\ charged'[s] = charged[s]
      BY <1>1, <2>1 DEF CallTurns
    <3>2. \A j \in Attempts : call'[s][j] = call[s][j]
      BY <1>1, <2>1 DEF CallTurns, CallMoves
    <3>3. call'[s] = call[s]
      <4>1. call \in [Reqs -> [Attempts -> Call]] /\ call' \in [Reqs -> [Attempts -> Call]]
        BY <1>1 DEF TypeOK, CallTurns, CallMoves
      <4> QED
        BY <3>2, <4>1
    <3> QED
      BY <3>1, <3>3 DEF ChargeInv
  <2> QED
    BY <1>1, <2>1 DEF ChargeInv
<1>2. ASSUME NEW r \in Reqs, NEW n \in Nodes, NEW x \in Decisions, Taken(n, r, x)
      PROVE  /\ charged'[r] \in Nat
             /\ \/ charged'[r] = charged[r] + 1 /\ x = "allowed"
                \/ charged'[r] = charged[r] /\ x = "denied"
             /\ \A s \in Reqs : s # r => charged'[s] = charged[s]
  BY <1>2, TakeEffect DEF Decisions
<1>3. ASSUME NEW r \in Reqs, NEW i \in Attempts, handleRateLimitTake(r, i)
      PROVE  ChargeInv'
  <2>0. /\ call[r][i].outer = "sent" /\ i \in OpenOf(call[r]) /\ Addrs[i] \in Nodes
        /\ ~NoCall(call[r][i]) /\ ChargeLocal(charged[r], req[r], call[r])
    BY <1>3, CoordinatorEffect, AttemptsProperties DEF OpenOf, NoCall, ChargeInv
  <2>1. ASSUME NEW x \in Decisions, Taken(Addrs[i], r, x), CallMoves(r, i, "none", "none"),
               RepliesOnly, \A q \in Reqs : q # r => req'[q] = req[q],
               req'[r].reply = IF Waiting(r, i) THEN x ELSE req[r].reply
        PROVE  ChargeInv'
    <3>1. CallTurns(r, i, "none", "none", x)
      BY <2>0, <2>1 DEF CallTurns
    <3>2. /\ OpenOf(call'[r]) \subseteq OpenOf(call[r]) \ {i}
          /\ DeniedOf(req'[r], call'[r]) \subseteq DeniedOf(req[r], call[r]) \cup {i}
          /\ x = "allowed" =>
                DeniedOf(req'[r], call'[r]) \subseteq DeniedOf(req[r], call[r])
      BY <3>1, TurnSets
    <3>3. ChargeLocal(charged'[r], req'[r], call'[r])
      BY <1>0, <1>2, <2>0, <2>1, <3>2, TakeSpends
    <3> QED
      BY <1>1, <1>2, <2>0, <2>1, <3>1, <3>3
  <2>2. CASE CallMoves(r, i, "fwd", "sent") /\ req' = req /\ BucketsRest
    <3>1. /\ CallTurns(r, i, "fwd", "sent", req[r].reply)
          /\ ~(Waiting(r, i) /\ req[r].reply \in Decisions)
      BY <2>0, <2>2, SilentTurn
    <3>2. ~(Waiting(r, i) /\ req[r].reply = "denied")
      BY <3>1 DEF Decisions
    <3>3. /\ OpenOf(call'[r]) \subseteq OpenOf(call[r])
          /\ DeniedOf(req'[r], call'[r]) \subseteq DeniedOf(req[r], call[r])
      BY <2>0, <3>1, <3>2, TurnSets
    <3>4. charged' = charged
      BY <2>2 DEF BucketsRest
    <3>5. ChargeLocal(charged'[r], req'[r], call'[r])
      BY <1>0, <2>0, <3>3, <3>4, BudgetKept
    <3> QED
      BY <1>1, <3>1, <3>4, <3>5
  <2> QED
    BY <1>3, <2>1, <2>2, CoordinatorEffect
<1>4. ASSUME NEW r \in Reqs, NEW i \in Attempts, handleInternalRateLimitTake(r, i)
      PROVE  ChargeInv'
  <2> DEFINE n == call[r][i].to
  <2>0. /\ call[r][i].inner = "sent" /\ i \in OpenOf(call[r]) /\ n \in Nodes /\ req' = req
        /\ ~NoCall(call[r][i]) /\ ChargeLocal(charged[r], req[r], call[r])
        /\ call[r][i].outer # "sent"
    BY <1>4, PrimaryEffect DEF OpenOf, NoCall, ChargeInv, CallInv, CallLocal
  <2>1. PICK x \in Decisions :
          Taken(n, r, x) /\ \E o, e : CallMoves(r, i, o, e) /\ o # "sent" /\ e \in {"none", x}
    BY <1>4, <2>0, PrimaryEffect
  <2>2. PICK o, e : CallMoves(r, i, o, e) /\ o # "sent" /\ e \in {"none", x}
    BY <2>1
  <2>3. /\ CallTurns(r, i, o, e, req[r].reply)
        /\ ~(Waiting(r, i) /\ req[r].reply \in Decisions)
    BY <2>0, <2>2, SilentTurn
  <2>4. ~(Waiting(r, i) /\ req[r].reply = "denied")
    BY <2>3 DEF Decisions
  <2> HIDE DEF n
  <2>5. e # "sent" /\ (x = "allowed" => e # "denied")
    BY <2>2 DEF Decisions
  <2>6. /\ OpenOf(call'[r]) \subseteq OpenOf(call[r]) \ {i}
        /\ DeniedOf(req'[r], call'[r]) \subseteq DeniedOf(req[r], call[r]) \cup {i}
        /\ x = "allowed" =>
              DeniedOf(req'[r], call'[r]) \subseteq DeniedOf(req[r], call[r])
    BY <2>2, <2>3, <2>4, <2>5, TurnSets
  <2>7. ChargeLocal(charged'[r], req'[r], call'[r])
    BY <1>0, <1>2, <2>0, <2>1, <2>6, TakeSpends
  <2> QED
    BY <1>1, <1>2, <2>0, <2>1, <2>3, <2>7
<1>5. ASSUME NEW r \in Reqs, NEW i \in Attempts, Relay(r, i)
      PROVE  ChargeInv'
  <2>0. /\ call[r][i].inner \in Decisions /\ BucketsRest /\ ChargeLocal(charged[r], req[r], call[r])
    BY <1>5, RelayEffect DEF ChargeInv
  <2>1. CallTurns(r, i, "none", "none", call[r][i].inner)
    BY <1>5, RelayEffect DEF CallTurns, NoCall
  <2>2. call[r][i].inner = "denied" => i \in DeniedOf(req[r], call[r])
    BY DEF DeniedOf
  <2>3. /\ OpenOf(call'[r]) \subseteq OpenOf(call[r])
        /\ DeniedOf(req'[r], call'[r]) \subseteq DeniedOf(req[r], call[r])
    BY <2>1, <2>2, TurnSets
  <2>4. charged' = charged
    BY <2>0 DEF BucketsRest
  <2>5. ChargeLocal(charged'[r], req'[r], call'[r])
    BY <1>0, <2>0, <2>3, <2>4, BudgetKept
  <2> QED
    BY <1>1, <2>1, <2>4, <2>5
<1>6. ASSUME NEW r \in Reqs, NEW i \in Attempts, ForwardErr(r, i)
      PROVE  ChargeInv'
  <2> DEFINE e == IF call[r][i].inner = "sent" THEN "sent" ELSE "none"
  <2>1. CallTurns(r, i, "none", e, "error") /\ BucketsRest /\ ChargeLocal(charged[r], req[r], call[r])
    BY <1>6, ForwardErrEffect DEF CallTurns, NoCall, ChargeInv
  <2>2. e = "none" \/ (e = "sent" /\ i \in OpenOf(call[r]))
    BY DEF OpenOf
  <2> HIDE DEF e
  <2>3. /\ OpenOf(call'[r]) \subseteq OpenOf(call[r])
        /\ DeniedOf(req'[r], call'[r]) \subseteq DeniedOf(req[r], call[r])
    BY <2>1, <2>2, TurnSets
  <2>4. charged' = charged
    BY <2>1 DEF BucketsRest
  <2>5. ChargeLocal(charged'[r], req'[r], call'[r])
    BY <1>0, <2>1, <2>3, <2>4, BudgetKept
  <2> QED
    BY <1>1, <2>1, <2>4, <2>5
<1>7. ASSUME NEW n \in Nodes, Crash(n)
      PROVE  ChargeInv'
  <2>0. RepliesOnly /\ CallsCut(n) /\ charged' = charged
    BY <1>7, CrashEffect DEF Crash
  <2>1. ASSUME NEW s \in Reqs
        PROVE  ChargeLocal(charged'[s], req'[s], call'[s])
    <3>1. OpenOf(call'[s]) \subseteq OpenOf(call[s])
      <4> SUFFICES ASSUME NEW j \in Attempts, call'[s][j].outer = "sent" \/ call'[s][j].inner = "sent"
                   PROVE  call[s][j].outer = "sent" \/ call[s][j].inner = "sent"
        BY DEF OpenOf
      <4> QED
        BY <2>0 DEF CallsCut
    <3>2. DeniedOf(req'[s], call'[s]) \subseteq DeniedOf(req[s], call[s])
      <4>1. /\ req'[s].pc = req[s].pc /\ req'[s].idx = req[s].idx
            /\ req'[s].reply \in {"error", req[s].reply}
        BY <2>0 DEF RepliesOnly, SameButReply, CallsCut
      <4>2. \A j \in Attempts : call'[s][j].inner = "denied" => call[s][j].inner = "denied"
        BY <2>0 DEF CallsCut
      <4> QED
        BY <4>1, <4>2 DEF DeniedOf
    <3> QED
      BY <1>0, <2>0, <3>1, <3>2, BudgetKept DEF ChargeInv
  <2> QED
    BY <2>1 DEF ChargeInv
<1>8. ASSUME Idle
      PROVE  ChargeInv'
  BY <1>8 DEF Idle, past, ChargeInv
<1> QED
  BY <1>3, <1>4, <1>5, <1>6, <1>7, <1>8, IdleEffect DEF Outside

\* The middleware has every attempt that it sends in its budget.
LEMMA MiddlewareCharges ==
    ASSUME BaseInv, ChargeInv, NEW r \in Reqs, Middleware(r)
    PROVE  ChargeInv'
<1> USE DEF BaseInv
<1> DEFINE p == req[r]
           q == req'[r]
           cs == call[r]
           ds == call'[r]
           n == charged[r]
<1>0. /\ Kinds(r) /\ charged' = charged /\ n \in Nat
      /\ p \in Request /\ q \in Request /\ Local(p, dryRun)
      /\ \A s \in Reqs : s # r => req'[s] = req[s]
      /\ ChargeLocal(n, p, cs)
  BY MiddlewareKinds, MiddlewareLocal DEF NodesRest, past, TypeOK, LocalInv, ChargeInv
<1>1. ASSUME NEW s \in Reqs, s # r
      PROVE  call'[s] = call[s]
  <2>1. CASE Sends(r)
    <3>1. /\ call \in [Reqs -> [Attempts -> Call]] /\ call' \in [Reqs -> [Attempts -> Call]]
          /\ \A j \in Attempts : call'[s][j] = call[s][j]
      BY <1>1, <2>1 DEF TypeOK, Sends, CallMoves
    <3> QED
      BY <3>1
  <2> QED
    BY <1>0, <2>1 DEF Kinds, Before, Decides, GoesOn, Opens, Leaves
<1>2. /\ p.pc # "wait" => p.reply = "none"
      /\ \A i \in Attempts : CallLocal(p, i, cs[i])
      /\ p.verdict # "none" => p.pc \in {"serve", "done"}
  BY <1>0 DEF CallInv, Local, WalkLocal
<1>3. /\ Cardinality(OpenOf(cs)) \in Nat /\ Cardinality(DeniedOf(p, cs)) \in Nat
      /\ Cardinality(OpenOf(ds)) \in Nat /\ Cardinality(DeniedOf(q, ds)) \in Nat
      /\ Cardinality(p.lost) \in Nat /\ IsFiniteSet(OpenOf(cs)) /\ IsFiniteSet(DeniedOf(p, cs))
      /\ IsFiniteSet(p.lost)
  BY <1>0, AttemptSets
<1>4. ASSUME p.pc # "wait", q.pc # "wait", cs = ds, q.lost = p.lost,
             q.verdict = "allowed" <=> p.verdict = "allowed"
      PROVE  ChargeLocal(n, q, ds)
  <2>1. Budget(q) = Budget(p)
    BY <1>4 DEF Budget
  <2>2. DeniedOf(q, ds) \subseteq DeniedOf(p, cs) /\ OpenOf(ds) \subseteq OpenOf(cs)
    BY <1>4 DEF DeniedOf
  <2> HIDE DEF p, q, cs, ds, n
  <2> QED
    BY <1>0, <2>1, <2>2, BudgetKept
<1>5. ASSUME Before(r)
      PROVE  ChargeLocal(n, q, ds)
  <2>1. p.pc # "wait" /\ q.pc # "wait" /\ cs = ds /\ q.lost = p.lost
    BY <1>5 DEF Before
  <2>2. p.verdict = "none"
    BY <1>2, <1>5 DEF Before
  <2>3. q.verdict = "allowed" <=> p.verdict = "allowed"
    BY <1>5, <2>2 DEF Before
  <2> HIDE DEF p, q, cs, ds, n
  <2> QED
    BY <1>4, <2>1, <2>3
<1>6. ASSUME Opens(r) \/ Leaves(r)
      PROVE  ChargeLocal(n, q, ds)
  <2>1. p.pc # "wait" /\ q.pc # "wait" /\ cs = ds /\ q.lost = p.lost
    BY <1>6 DEF Opens, Leaves
  <2>2. q.verdict = "allowed" <=> p.verdict = "allowed"
    BY <1>2, <1>6 DEF Opens, Leaves
  <2> HIDE DEF p, q, cs, ds, n
  <2> QED
    BY <1>4, <2>1, <2>2
<1>7. ASSUME Sends(r)
      PROVE  ChargeLocal(n, q, ds)
  <2>1. /\ p.pc = "try" /\ q.pc = "wait" /\ q.lost = p.lost /\ q.verdict = p.verdict
        /\ p.reply = "none" /\ q.reply = "none"
        /\ \A j \in Attempts : j # p.idx => ds[j] = cs[j]
        /\ ds[p.idx].inner = cs[p.idx].inner /\ p.idx \in Attempts
    BY <1>2, <1>7 DEF Sends, CallMoves
  <2> HIDE DEF p, q, cs, ds, n
  <2>2. OpenOf(ds) \subseteq OpenOf(cs) \cup {p.idx}
    BY <2>1 DEF OpenOf
  <2>3. DeniedOf(q, ds) \subseteq DeniedOf(p, cs)
    <3>1. \A j \in Attempts : ds[j].inner = cs[j].inner
      BY <2>1
    <3> QED
      BY <2>1, <3>1 DEF DeniedOf
  <2>4. Budget(q) = Budget(p) + 1 /\ Budget(p) \in Nat
    BY <1>3, <2>1 DEF Budget
  <2>5. /\ Cardinality(OpenOf(ds)) <= Cardinality(OpenOf(cs)) + 1
        /\ Cardinality(DeniedOf(q, ds)) <= Cardinality(DeniedOf(p, cs))
    BY <1>3, <2>2, <2>3, OneMore, NoMore
  <2> QED
    BY <1>0, <1>3, <2>4, <2>5 DEF ChargeLocal
<1>8. ASSUME Decides(r)
      PROVE  ChargeLocal(n, q, ds)
  <2>1. /\ p.pc = "wait" /\ q.pc \in {"serve", "done"} /\ q.lost = p.lost /\ ds = cs
        /\ p.verdict = "none" /\ p.idx \in Attempts /\ CallLocal(p, p.idx, cs[p.idx])
        /\ \/ p.reply = "allowed" /\ q.verdict = "allowed"
           \/ p.reply = "denied" /\ q.verdict \in {"dryrun", "denied"}
    BY <1>0, <1>2, <1>8 DEF Decides, Local, WalkLocal
  <2> HIDE DEF p, q, cs, ds, n
  <2>2. OpenOf(ds) \subseteq OpenOf(cs) /\ DeniedOf(q, ds) \subseteq DeniedOf(p, cs)
    BY <2>1 DEF DeniedOf
  <2>3. CASE p.reply = "allowed" /\ q.verdict = "allowed"
    <3>1. Budget(q) = Budget(p)
      BY <1>3, <2>1, <2>3 DEF Budget
    <3> QED
      BY <1>0, <2>2, <3>1, BudgetKept
  <2>4. CASE p.reply = "denied" /\ q.verdict \in {"dryrun", "denied"}
    <3>1. Budget(p) = Budget(q) + 1 /\ Budget(q) \in Nat
      BY <1>3, <2>1, <2>4 DEF Budget
    <3>2. p.idx \in DeniedOf(p, cs)
      BY <2>1, <2>4 DEF DeniedOf
    <3>3. NoCall(cs[p.idx])
      BY <2>1, <2>4 DEF CallLocal, Decisions
    <3>4. DeniedOf(q, ds) \subseteq DeniedOf(p, cs) \ {p.idx}
      BY <2>1, <2>2, <3>3 DEF DeniedOf, NoCall
    <3>5. Cardinality(DeniedOf(q, ds)) + 1 <= Cardinality(DeniedOf(p, cs))
      BY <1>3, <3>2, <3>4, OneLess
    <3>6. Cardinality(OpenOf(ds)) = Cardinality(OpenOf(cs))
      BY <2>1
    <3> QED
      BY <1>0, <1>3, <3>1, <3>5, <3>6 DEF ChargeLocal
  <2> QED
    BY <2>1, <2>3, <2>4
<1>9. ASSUME GoesOn(r)
      PROVE  ChargeLocal(n, q, ds)
  <2>1. /\ p.pc = "wait" /\ q.pc = "try" /\ q.lost = p.lost \cup {p.idx} /\ ds = cs
        /\ q.verdict = p.verdict /\ p.idx \in Nat /\ p.lost \subseteq 1 .. p.idx - 1
    BY <1>0, <1>9 DEF GoesOn, Local, WalkLocal, Request
  <2> HIDE DEF p, q, cs, ds, n
  <2>2. OpenOf(ds) \subseteq OpenOf(cs) /\ DeniedOf(q, ds) \subseteq DeniedOf(p, cs)
    BY <2>1 DEF DeniedOf
  <2>3. p.idx \notin p.lost
    BY <2>1
  <2>4. Cardinality(q.lost) = Cardinality(p.lost) + 1
    <3>1. Cardinality(p.lost \cup {p.idx}) = Cardinality(p.lost) + 1
      BY <1>3, <2>3, FS_AddElement, Zenon
    <3> QED
      BY <2>1, <3>1
  <2>5. Budget(q) = Budget(p)
    BY <1>3, <2>1, <2>4 DEF Budget
  <2> QED
    BY <1>0, <2>2, <2>5, BudgetKept
<1>10. ChargeLocal(n, q, ds)
  BY <1>0, <1>5, <1>6, <1>7, <1>8, <1>9 DEF Kinds
<1>11. ASSUME NEW s \in Reqs
       PROVE  ChargeLocal(charged'[s], req'[s], call'[s])
  BY <1>0, <1>1, <1>10 DEF ChargeInv
<1> QED
  BY <1>11 DEF ChargeInv

\* No bucket is charged twice for an attempt, however late a forwarded take is
\* applied, however the coordinator fails it and whatever the middleware makes
\* of the answer; the budget grows when an attempt is sent.
THEOREM AttemptsChargedOnce == Spec => []ChargedOncePerAttempt
<1>1. ASSUME Init
      PROVE  ChargeInv
  <2>1. ASSUME NEW r \in Reqs
        PROVE  ChargeLocal(charged[r], req[r], call[r])
    <3>1. /\ charged[r] = 0 /\ req[r].lost = {} /\ req[r].pc = "idle" /\ req[r].verdict = "none"
          /\ \A i \in Attempts : call[r][i].outer = "none" /\ call[r][i].inner = "none"
      BY <1>1 DEF Init
    <3>2. OpenOf(call[r]) = {} /\ DeniedOf(req[r], call[r]) = {}
      BY <3>1 DEF OpenOf, DeniedOf
    <3> QED
      BY <3>1, <3>2, FS_EmptySet DEF ChargeLocal, Budget
  <2> QED
    BY <2>1 DEF ChargeInv
<1>2. ASSUME BaseInv, ChargeInv, [Next]_vars
      PROVE  ChargeInv'
  BY <1>2, TwoSides, MiddlewareCharges, OutsideCharges
<1>3. ASSUME BaseInv, ChargeInv
      PROVE  ChargedOncePerAttempt
  <2>1. ASSUME NEW r \in Reqs
        PROVE  charged[r] <= Cardinality(req[r].lost)
                             + (IF req[r].pc = "wait" \/ req[r].verdict = "allowed" THEN 1 ELSE 0)
    <3>1. /\ req[r] \in Request /\ charged[r] \in Nat /\ ChargeLocal(charged[r], req[r], call[r])
          /\ req[r].verdict = "allowed" => req[r].pc # "wait"
      BY <1>3 DEF BaseInv, TypeOK, ChargeInv, LocalInv, Local, WalkLocal
    <3>2. /\ Cardinality(OpenOf(call[r])) \in Nat /\ Cardinality(DeniedOf(req[r], call[r])) \in Nat
          /\ Cardinality(req[r].lost) \in Nat
      BY <3>1, AttemptSets
    <3> QED
      BY <3>1, <3>2 DEF ChargeLocal, Budget
  <2> QED
    BY <2>1 DEF ChargedOncePerAttempt
<1>4. Init => ChargeInv
  BY <1>1
<1>5. BaseInv /\ ChargeInv /\ [Next]_vars => ChargeInv'
  BY <1>2
<1>6. BaseInv /\ ChargeInv => ChargedOncePerAttempt
  BY <1>3
<1> QED
  BY <1>4, <1>5, <1>6, BaseAlways, PTL DEF Spec
----------------------------------------------------------------------------
(* What the buckets have let through. *)

\* The requests that passed on a decision, and the decisions to let one pass
\* that are on their way to it.
Admitted == {r \in Reqs : req[r].verdict = "allowed"}

Grant(q, i, c) == c.inner = "allowed" \/ (q.pc = "wait" /\ q.idx = i /\ q.reply = "allowed")

GrantsIn(rq, cl) == {x \in Reqs \X Attempts : Grant(rq[x[1]], x[2], cl[x[1]][x[2]])}

Passes == Cardinality(Admitted) + Cardinality(GrantsIn(req, call))

\* What bucket n has poured out, by what is in it.
Poured(n) ==
    IF bucket[n] = Absent THEN 0
    ELSE Burst + PerTick * (bucket[n].lastRefill - 1) - bucket[n].tokens

PouredBoth ==
    Poured(PrimaryBefore) + (IF PrimaryAfter = PrimaryBefore THEN 0 ELSE Poured(PrimaryAfter))

\* What any bucket may have poured out by now.
Share == Burst + PerTick * (now - 1)

\* Every pass has come out of a bucket that is there, or out of one that is lost.
LimitInv == Cost * Passes <= Share * resets + PouredBoth

\* The pairs of the set.
LEMMA GrantPairs ==
    ASSUME NEW rq, NEW cl
    PROVE  /\ \A r \in Reqs, i \in Attempts : <<r, i>> \in GrantsIn(rq, cl) <=> Grant(rq[r], i, cl[r][i])
           /\ \A x \in GrantsIn(rq, cl) : \E r \in Reqs, i \in Attempts :
                 x = <<r, i>> /\ Grant(rq[r], i, cl[r][i])
           /\ IsFiniteSet(GrantsIn(rq, cl)) /\ Cardinality(GrantsIn(rq, cl)) \in Nat
<1>1. IsFiniteSet(Reqs \X Attempts)
  BY NodesAssumption, AttemptsProperties, FS_Product
<1>2. GrantsIn(rq, cl) \subseteq Reqs \X Attempts
  BY DEF GrantsIn
<1>3. IsFiniteSet(GrantsIn(rq, cl)) /\ Cardinality(GrantsIn(rq, cl)) \in Nat
  BY <1>1, <1>2, NoMore
<1>4. \A r \in Reqs, i \in Attempts : <<r, i>> \in GrantsIn(rq, cl) <=> Grant(rq[r], i, cl[r][i])
  BY DEF GrantsIn
<1>5. ASSUME NEW x \in GrantsIn(rq, cl)
      PROVE  \E r \in Reqs, i \in Attempts : x = <<r, i>> /\ Grant(rq[r], i, cl[r][i])
  <2>1. PICK r \in Reqs, i \in Attempts : x = <<r, i>>
    BY <1>2
  <2> QED
    BY <1>4, <2>1
<1> QED
  BY <1>3, <1>4, <1>5

\* Requests are finitely many.
LEMMA AdmittedSets ==
    /\ IsFiniteSet(Admitted) /\ Cardinality(Admitted) \in Nat
    /\ IsFiniteSet(Admitted') /\ Cardinality(Admitted') \in Nat
    /\ Passes \in Nat
<1>1. IsFiniteSet(Reqs) /\ Admitted \subseteq Reqs /\ Admitted' \subseteq Reqs
  BY NodesAssumption DEF Admitted
<1>2. /\ IsFiniteSet(Admitted) /\ Cardinality(Admitted) \in Nat
      /\ IsFiniteSet(Admitted') /\ Cardinality(Admitted') \in Nat
  BY <1>1, NoMore
<1> QED
  BY <1>2, GrantPairs DEF Passes

\* One turn of a call grants no more than its attempt.
LEMMA TurnGrants ==
    ASSUME TypeOK, NEW r \in Reqs, NEW i \in Attempts, NEW o, NEW e, NEW x, CallTurns(r, i, o, e, x)
    PROVE  /\ Passes' <= Passes + 1
           /\ \/ e # "allowed" /\ ~(Waiting(r, i) /\ x = "allowed")
              \/ Grant(req[r], i, call[r][i])
              => Passes' <= Passes
<1> DEFINE G == GrantsIn(req, call)
           H == GrantsIn(req', call')
<1>0. /\ \A s \in Reqs : req'[s].pc = req[s].pc /\ req'[s].idx = req[s].idx /\ req'[s].verdict = req[s].verdict
      /\ \A s \in Reqs, j \in Attempts : s # r \/ j # i => call'[s][j] = call[s][j]
      /\ call'[r][i].inner = e
      /\ \A s \in Reqs : s # r => req'[s] = req[s]
      /\ req'[r].reply = IF Waiting(r, i) THEN x ELSE req[r].reply
  BY DEF CallTurns, CallMoves, RepliesOnly, SameButReply
<1>1. Admitted' = Admitted
  BY <1>0 DEF Admitted
<1>2. ASSUME NEW s \in Reqs, NEW j \in Attempts, s # r \/ j # i, Grant(req'[s], j, call'[s][j])
      PROVE  Grant(req[s], j, call[s][j])
  <2>1. call'[s][j] = call[s][j]
    BY <1>0, <1>2
  <2>2. req[s].pc = "wait" /\ req[s].idx = j => req'[s].reply = req[s].reply
    BY <1>0, <1>2 DEF Waiting
  <2> QED
    BY <1>0, <1>2, <2>1, <2>2 DEF Grant
<1>3. H \subseteq G \cup {<<r, i>>}
  <2> SUFFICES ASSUME NEW y \in H, y # <<r, i>>
               PROVE  y \in G
    OBVIOUS
  <2>1. PICK s \in Reqs, j \in Attempts : y = <<s, j>> /\ Grant(req'[s], j, call'[s][j])
    BY GrantPairs
  <2>2. s # r \/ j # i
    BY <2>1
  <2> QED
    BY <1>2, <2>1, <2>2, GrantPairs
<1>4. ASSUME e # "allowed", ~(Waiting(r, i) /\ x = "allowed")
      PROVE  <<r, i>> \notin H
  <2>1. ~Grant(req'[r], i, call'[r][i])
    BY <1>0, <1>4 DEF Grant, Waiting
  <2> QED
    BY <2>1, GrantPairs
<1>5. Grant(req[r], i, call[r][i]) => <<r, i>> \in G
  BY GrantPairs
<1>6. \/ e # "allowed" /\ ~(Waiting(r, i) /\ x = "allowed")
      \/ Grant(req[r], i, call[r][i])
      => H \subseteq G
  BY <1>3, <1>4, <1>5
<1>7. IsFiniteSet(G) /\ Cardinality(G) \in Nat /\ Cardinality(H) \in Nat
  BY GrantPairs
<1> HIDE DEF G, H
<1>8. Cardinality(H) <= Cardinality(G) + 1 /\ (H \subseteq G => Cardinality(H) <= Cardinality(G))
  BY <1>3, <1>7, OneMore, NoMore
<1>9. Passes' = Cardinality(Admitted) + Cardinality(H) /\ Passes = Cardinality(Admitted) + Cardinality(G)
  BY <1>1 DEF Passes, G, H
<1> QED
  BY <1>6, <1>7, <1>8, <1>9, AdmittedSets

\* The middleware turns a grant into a pass, one for one.
LEMMA MiddlewareGrants ==
    ASSUME BaseInv, NEW r \in Reqs, Middleware(r)
    PROVE  Passes' <= Passes
<1> USE DEF BaseInv
<1> DEFINE G == GrantsIn(req, call)
           H == GrantsIn(req', call')
<1>0. /\ Kinds(r) /\ req[r] \in Request /\ Local(req[r], dryRun)
      /\ \A s \in Reqs : s # r => req'[s] = req[s]
  BY MiddlewareKinds, MiddlewareLocal DEF TypeOK, LocalInv
<1>1. ASSUME NEW s \in Reqs, NEW j \in Attempts
      PROVE  call'[s][j].inner = call[s][j].inner
  <2>1. CASE Sends(r)
    BY <2>1 DEF Sends, CallMoves
  <2> QED
    BY <1>0, <2>1 DEF Kinds, Before, Decides, GoesOn, Opens, Leaves
<1>2. req'[r].reply # "allowed" \/ req'[r].pc # "wait"
  <2>1. req[r].pc # "wait" => req[r].reply = "none"
    BY DEF CallInv
  <2> QED
    BY <1>0, <2>1 DEF Kinds, Before, Sends, Decides, GoesOn, Opens, Leaves
<1>3. H \subseteq G
  <2> SUFFICES ASSUME NEW y \in H
               PROVE  y \in G
    OBVIOUS
  <2>1. PICK s \in Reqs, j \in Attempts : y = <<s, j>> /\ Grant(req'[s], j, call'[s][j])
    BY GrantPairs
  <2>2. Grant(req[s], j, call[s][j])
    BY <1>0, <1>1, <1>2, <2>1 DEF Grant
  <2> QED
    BY <2>1, <2>2, GrantPairs
<1>4. IsFiniteSet(G) /\ Cardinality(G) \in Nat /\ Cardinality(H) \in Nat
  BY GrantPairs
<1>5. /\ IsFiniteSet(Admitted) /\ Cardinality(Admitted) \in Nat /\ Cardinality(Admitted') \in Nat
      /\ Passes' = Cardinality(Admitted') + Cardinality(H)
      /\ Passes = Cardinality(Admitted) + Cardinality(G)
  BY AdmittedSets DEF Passes
<1>6. CASE Decides(r) /\ req[r].reply = "allowed"
  <2>1. Admitted' \subseteq Admitted \cup {r}
    BY <1>0 DEF Admitted
  <2>2. /\ req[r].pc = "wait" /\ req[r].idx \in Attempts /\ req'[r].pc # "wait"
        /\ CallLocal(req[r], req[r].idx, call[r][req[r].idx])
    BY <1>0, <1>6 DEF Decides, Local, WalkLocal, CallInv
  <2>3. call[r][req[r].idx].inner = "none"
    BY <1>6, <2>2 DEF CallLocal, NoCall, Decisions
  <2>4. <<r, req[r].idx>> \in G
    BY <1>6, <2>2, GrantPairs DEF Grant
  <2>5. <<r, req[r].idx>> \notin H
    <3>1. ~Grant(req'[r], req[r].idx, call'[r][req[r].idx])
      BY <1>1, <2>2, <2>3 DEF Grant
    <3> QED
      BY <2>2, <3>1, GrantPairs
  <2>6. H \subseteq G \ {<<r, req[r].idx>>}
    BY <1>3, <2>5
  <2> HIDE DEF G, H
  <2>7. /\ Cardinality(H) + 1 <= Cardinality(G)
        /\ Cardinality(Admitted') <= Cardinality(Admitted) + 1
    BY <1>4, <1>5, <2>1, <2>4, <2>6, OneLess, OneMore
  <2> QED
    BY <1>4, <1>5, <2>7
<1>7. CASE ~(Decides(r) /\ req[r].reply = "allowed")
  <2>1. req'[r].verdict = "allowed" => req[r].verdict = "allowed"
    BY <1>0, <1>7 DEF Kinds, Before, Sends, Decides, GoesOn, Opens, Leaves
  <2>2. Admitted' \subseteq Admitted
    BY <1>0, <2>1 DEF Admitted
  <2> HIDE DEF G, H
  <2>3. /\ Cardinality(H) <= Cardinality(G)
        /\ Cardinality(Admitted') <= Cardinality(Admitted)
    BY <1>3, <1>4, <1>5, <2>2, NoMore
  <2> QED
    BY <1>4, <1>5, <2>3
<1> QED
  BY <1>6, <1>7

\* What a step outside grants.
LEMMA OutsideGrants ==
    ASSUME BaseInv, Outside
    PROVE  \/ Passes' <= Passes /\ UNCHANGED <<bucket, resets>> /\ now' \in {now, now + 1}
           \/ \E r \in Reqs, n \in Primaries, x \in Decisions :
                /\ Taken(n, r, x) /\ UNCHANGED <<now, resets>>
                /\ Passes' <= Passes + (IF x = "allowed" THEN 1 ELSE 0)
           \/ \E n \in Nodes : Crash(n) /\ Passes' <= Passes
<1> USE DEF BaseInv
<1> DEFINE Pours(r, n, x) == /\ Taken(n, r, x) /\ UNCHANGED <<now, resets>>
                             /\ Passes' <= Passes + (IF x = "allowed" THEN 1 ELSE 0)
           Pouring(r, n) == \E x \in Decisions : Pours(r, n, x)
           Still == Passes' <= Passes /\ UNCHANGED <<bucket, resets>> /\ now' \in {now, now + 1}
<1>0. Passes \in Nat
  BY AdmittedSets
<1>1. ASSUME NEW r \in Reqs, NEW i \in Attempts, handleRateLimitTake(r, i)
      PROVE  Still \/ \E n \in Primaries : Pouring(r, n)
  <2>0. /\ ~NoCall(call[r][i]) /\ UNCHANGED <<now, resets>> /\ Addrs[i] \in Nodes
    BY <1>1, CoordinatorEffect, AttemptsProperties DEF NoCall, handleRateLimitTake
  <2>1. ASSUME NEW x \in Decisions, primary[Addrs[i]] = Addrs[i],
               Taken(Addrs[i], r, x), CallMoves(r, i, "none", "none"),
               RepliesOnly, \A q \in Reqs : q # r => req'[q] = req[q],
               req'[r].reply = IF Waiting(r, i) THEN x ELSE req[r].reply
        PROVE  \E n \in Primaries : Pouring(r, n)
    <3>1. CallTurns(r, i, "none", "none", x) /\ Addrs[i] \in Primaries
      BY <2>0, <2>1 DEF CallTurns, PlaceInv
    <3>2. Passes' <= Passes + 1 /\ (x # "allowed" => Passes' <= Passes)
      BY <3>1, TurnGrants
    <3>3. Passes' <= Passes + (IF x = "allowed" THEN 1 ELSE 0)
      BY <1>0, <3>2
    <3>4. Pours(r, Addrs[i], x)
      BY <2>0, <2>1, <3>3
    <3> QED
      BY <3>1, <3>4
  <2>2. CASE CallMoves(r, i, "fwd", "sent") /\ req' = req /\ BucketsRest
    <3>1. /\ CallTurns(r, i, "fwd", "sent", req[r].reply)
          /\ ~(Waiting(r, i) /\ req[r].reply \in Decisions)
      BY <2>0, <2>2, SilentTurn
    <3>2. ~(Waiting(r, i) /\ req[r].reply = "allowed")
      BY <3>1 DEF Decisions
    <3>3. Passes' <= Passes
      BY <3>1, <3>2, TurnGrants
    <3> QED
      BY <2>0, <2>2, <3>3 DEF BucketsRest
  <2> QED
    BY <1>1, <2>1, <2>2, CoordinatorEffect
<1>2. ASSUME NEW r \in Reqs, NEW i \in Attempts, handleInternalRateLimitTake(r, i)
      PROVE  \E n \in Primaries : Pouring(r, n)
  <2> DEFINE n == call[r][i].to
  <2>0. /\ n \in Primaries /\ req' = req /\ ~NoCall(call[r][i])
        /\ UNCHANGED <<now, resets>>
    BY <1>2, PrimaryEffect DEF NoCall, PlaceInv, handleInternalRateLimitTake
  <2>a. PICK x \in Decisions :
          Taken(n, r, x) /\ \E o, e : CallMoves(r, i, o, e) /\ e \in {"none", x}
    BY <1>2, PrimaryEffect
  <2>1. PICK o, e : CallMoves(r, i, o, e) /\ e \in {"none", x}
    BY <2>a
  <2>2. /\ CallTurns(r, i, o, e, req[r].reply)
        /\ ~(Waiting(r, i) /\ req[r].reply \in Decisions)
    BY <2>0, <2>1, SilentTurn
  <2>3. ~(Waiting(r, i) /\ req[r].reply = "allowed")
    BY <2>2 DEF Decisions
  <2>4. Passes' <= Passes + 1 /\ (x # "allowed" => Passes' <= Passes)
    <3>1. x # "allowed" => e # "allowed"
      BY <2>1
    <3> QED
      BY <2>2, <2>3, <3>1, TurnGrants
  <2>5. Passes' <= Passes + (IF x = "allowed" THEN 1 ELSE 0)
    BY <1>0, <2>4
  <2>6. Pours(r, n, x)
    BY <2>0, <2>a, <2>5
  <2> QED
    BY <2>0, <2>6
<1>3. ASSUME NEW r \in Reqs, NEW i \in Attempts, Relay(r, i)
      PROVE  Still
  <2>0. UNCHANGED <<now, resets, bucket>>
    BY <1>3 DEF Relay, cluster, past
  <2>1. CallTurns(r, i, "none", "none", call[r][i].inner)
    BY <1>3, RelayEffect DEF CallTurns, NoCall
  <2>2. call[r][i].inner = "allowed" => Grant(req[r], i, call[r][i])
    BY DEF Grant
  <2>3. Passes' <= Passes
    BY <2>1, <2>2, TurnGrants
  <2> QED
    BY <2>0, <2>3
<1>4. ASSUME NEW r \in Reqs, NEW i \in Attempts, ForwardErr(r, i)
      PROVE  Still
  <2> DEFINE e == IF call[r][i].inner = "sent" THEN "sent" ELSE "none"
  <2>0. UNCHANGED <<now, resets, bucket>>
    BY <1>4 DEF ForwardErr, past
  <2>1. CallTurns(r, i, "none", e, "error")
    BY <1>4, ForwardErrEffect DEF CallTurns, NoCall
  <2>2. e # "allowed"
    OBVIOUS
  <2> HIDE DEF e
  <2>3. Passes' <= Passes
    BY <2>1, <2>2, TurnGrants
  <2> QED
    BY <2>0, <2>3
<1>5. ASSUME NEW n \in Nodes, Crash(n)
      PROVE  Passes' <= Passes
  <2>0. RepliesOnly /\ CallsCut(n)
    BY <1>5, CrashEffect
  <2>1. /\ \A s \in Reqs : /\ req'[s].pc = req[s].pc /\ req'[s].idx = req[s].idx
                           /\ req'[s].verdict = req[s].verdict
                           /\ req'[s].reply \in {"error", req[s].reply}
        /\ \A s \in Reqs, j \in Attempts : call'[s][j].inner = "allowed" => call[s][j].inner = "allowed"
    BY <2>0 DEF RepliesOnly, SameButReply, CallsCut
  <2>2. Admitted' = Admitted
    BY <2>1 DEF Admitted
  <2> DEFINE G == GrantsIn(req, call)
             H == GrantsIn(req', call')
  <2>3. H \subseteq G
    <3> SUFFICES ASSUME NEW y \in H
                 PROVE  y \in G
      OBVIOUS
    <3>1. PICK s \in Reqs, j \in Attempts : y = <<s, j>> /\ Grant(req'[s], j, call'[s][j])
      BY GrantPairs
    <3>2. Grant(req[s], j, call[s][j])
      BY <2>1, <3>1 DEF Grant
    <3> QED
      BY <3>1, <3>2, GrantPairs
  <2>4. IsFiniteSet(G) /\ Cardinality(G) \in Nat /\ Cardinality(H) \in Nat
    BY GrantPairs
  <2>5. Passes' = Cardinality(Admitted) + Cardinality(H) /\ Passes = Cardinality(Admitted) + Cardinality(G)
    BY <2>2 DEF Passes
  <2> HIDE DEF G, H
  <2>6. Cardinality(H) <= Cardinality(G)
    BY <2>3, <2>4, NoMore
  <2> QED
    BY <2>4, <2>5, <2>6, AdmittedSets
<1>6. ASSUME Idle
      PROVE  Still
  <2>1. Passes' = Passes
    BY <1>6 DEF Idle, Passes, Admitted
  <2>2. Passes' <= Passes
    BY <1>0, <2>1
  <2> QED
    BY <1>6, <2>2 DEF Idle, past
<1>7. ASSUME Outside
      PROVE  \/ Still
             \/ \E r \in Reqs, n \in Primaries : Pouring(r, n)
             \/ \E n \in Nodes : Crash(n) /\ Passes' <= Passes
  <2> HIDE DEF Still, Pouring
  <2>1. CASE \E r \in Reqs, i \in Attempts : handleRateLimitTake(r, i)
    BY <1>1, <2>1
  <2>2. CASE \E r \in Reqs, i \in Attempts : handleInternalRateLimitTake(r, i)
    BY <1>2, <2>2
  <2>3. CASE \E r \in Reqs, i \in Attempts : Relay(r, i) \/ ForwardErr(r, i)
    BY <1>3, <1>4, <2>3
  <2>4. CASE \E n \in Nodes : Crash(n)
    BY <1>5, <2>4
  <2> QED
    BY <1>6, <1>7, <2>1, <2>2, <2>3, <2>4, IdleEffect DEF Outside
<1> QED
  BY <1>7

\* A product grows with its factors.
LEMMA ProductGrows ==
    ASSUME NEW a \in Int, NEW b \in Int, NEW c \in Nat, a <= b
    PROVE  a * c \in Int /\ b * c \in Int /\ a * c <= b * c
<1> DEFINE d == b - a
<1>1. d \in Nat /\ b = a + d
  OBVIOUS
<1> HIDE DEF d
<1>2. (a + d) * c = a * c + d * c /\ a * c \in Int /\ d * c \in Nat
  BY <1>1, Distributes, Inflow
<1> QED
  BY <1>1, <1>2

\* The same, with the other factor in front.
LEMMA FactorGrows ==
    ASSUME NEW a \in Nat, NEW b \in Nat, NEW c \in Nat, a <= b
    PROVE  c * a \in Nat /\ c * b \in Nat /\ c * a <= c * b
<1>1. a * c <= b * c /\ a * c \in Nat /\ b * c \in Nat
  <2>1. a \in Int /\ b \in Int
    OBVIOUS
  <2> QED
    BY <2>1, ProductGrows, Inflow
<1>2. a * c = c * a /\ b * c = c * b
  OBVIOUS
<1> QED
  BY <1>1, <1>2

\* What comes in never gets less.
LEMMA ShareGrows ==
    ASSUME NEW a \in Nat, NEW b \in Nat, NEW rate \in Nat, NEW burst \in Nat, 1 <= a, a <= b
    PROVE  /\ burst + rate * (a - 1) \in Nat /\ burst + rate * (b - 1) \in Nat
           /\ burst + rate * (a - 1) <= burst + rate * (b - 1)
<1> DEFINE x == rate * (a - 1)
           y == rate * (b - 1)
<1>1. a - 1 \in Nat /\ b - 1 \in Nat /\ a - 1 <= b - 1
  OBVIOUS
<1>2. x \in Nat /\ y \in Nat /\ x <= y
  BY <1>1, FactorGrows, Zenon
<1> HIDE DEF x, y
<1>3. burst + x \in Nat /\ burst + y \in Nat /\ burst + x <= burst + y
  BY <1>2
<1> QED
  BY <1>3 DEF x, y

\* No bucket has poured out more than its share.
LEMMA PouredBounds ==
    ASSUME BaseInv, NEW n \in Nodes
    PROVE  /\ Poured(n) \in Int /\ Share \in Nat
           /\ bucket[n] # Absent => Poured(n) <= Share
           /\ bucket[n] = Absent => Poured(n) = 0
<1> USE DEF BaseInv
<1>1. PerTick \in Nat /\ Burst \in Nat /\ now \in Nat /\ now >= 1 /\ now - 1 \in Nat
  BY PerTickType, ConfigNumbers DEF TypeOK
<1>2. PerTick * (now - 1) \in Nat /\ (now - 1) * PerTick = PerTick * (now - 1)
  BY <1>1, Inflow
<1>3. Share \in Nat
  BY <1>1, <1>2 DEF Share
<1>4. CASE bucket[n] # Absent
  <2> DEFINE l == bucket[n].lastRefill
             t == bucket[n].tokens
  <2>1. l \in Nat /\ t \in Nat /\ l <= now
    <3>1. bucket[n] \in Bucket
      BY <1>4 DEF TypeOK
    <3> QED
      BY <1>4, <3>1 DEF Bucket, BucketInv
  <2>2. Poured(n) = Burst + PerTick * (l - 1) - t
    BY <1>4 DEF Poured
  <2> HIDE DEF l, t
  <2>3. l - 1 \in Int /\ l - 1 <= now - 1 /\ now - 1 \in Int
    BY <1>1, <2>1
  <2>4. (l - 1) * PerTick \in Int /\ (l - 1) * PerTick <= (now - 1) * PerTick
    BY <1>1, <2>3, ProductGrows
  <2>5. PerTick * (l - 1) = (l - 1) * PerTick
    BY <1>1, <2>3
  <2>6. PerTick * (l - 1) \in Int /\ PerTick * (l - 1) <= PerTick * (now - 1)
    BY <1>2, <2>4, <2>5
  <2> DEFINE x == PerTick * (l - 1)
             y == PerTick * (now - 1)
  <2>7. x \in Int /\ y \in Nat /\ x <= y /\ Poured(n) = Burst + x - t /\ Share = Burst + y
    BY <1>2, <2>2, <2>6 DEF Share
  <2> HIDE DEF x, y
  <2> QED
    BY <1>1, <1>3, <1>4, <2>1, <2>7
<1>5. CASE bucket[n] = Absent
  BY <1>3, <1>5 DEF Poured
<1> QED
  BY <1>4, <1>5

\* Store.Take grants no more than it pours out.
LEMMA TakePours ==
    ASSUME BaseInv, NEW n \in Nodes, NEW r \in Reqs, NEW x, Taken(n, r, x)
    PROVE  /\ Poured(n)' \in Int
           /\ Poured(n) + (IF x = "allowed" THEN Cost ELSE 0) <= Poured(n)'
           /\ \A m \in Nodes : m # n => Poured(m)' = Poured(m)
<1> USE DEF BaseInv
<1> DEFINE spent == IF x = "allowed" THEN Cost ELSE 0
           l == Current(n).lastRefill
           t == Current(n).tokens
           u == bucket'[n].tokens
<1>1. PerTick \in Nat /\ Burst \in Nat /\ now \in Nat /\ now >= 1 /\ spent \in Nat
  BY PerTickType, ConfigNumbers DEF TypeOK
<1>2. /\ bucket' \in [Nodes -> Bucket \cup {Absent}] /\ bucket'[n] # Absent
      /\ bucket'[n].lastRefill = now /\ u + spent <= t + (now - l) * PerTick
      /\ \A m \in Nodes : m # n => bucket'[m] = bucket[m]
  BY TakeEffect
<1>3. l \in Nat /\ t \in Nat /\ u \in Nat /\ l <= now
  <2>1. Current(n) \in Bucket /\ l <= now /\ bucket'[n] \in Bucket
    BY <1>2, CurrentProperties
  <2> QED
    BY <2>1 DEF Bucket
<1>4. Poured(n)' = Burst + PerTick * (now - 1) - u
  BY <1>2 DEF Poured
<1>5. \/ bucket[n] = Absent /\ t = Burst /\ l = now /\ Poured(n) = 0
      \/ Poured(n) = Burst + PerTick * (l - 1) - t
  BY CurrentProperties DEF Poured
<1> HIDE DEF spent, l, t, u
<1> DEFINE w == PerTick * (l - 1)
           y == PerTick * (now - 1)
           z == (now - l) * PerTick
<1>6. w \in Int /\ y \in Nat /\ z \in Nat /\ y = w + z
  <2>1. now - 1 \in Nat /\ now - l \in Nat /\ l - 1 \in Int /\ now - 1 = (l - 1) + (now - l)
    BY <1>1, <1>3
  <2>2. /\ ((l - 1) + (now - l)) * PerTick = (l - 1) * PerTick + (now - l) * PerTick
        /\ (l - 1) * PerTick \in Int
    BY <1>1, <2>1, Distributes
  <2>3. (now - 1) * PerTick \in Nat /\ (now - l) * PerTick \in Nat
    BY <1>1, <2>1, Inflow
  <2>4. (now - 1) * PerTick = y /\ (l - 1) * PerTick = w
    BY <1>1, <2>1
  <2> QED
    BY <2>1, <2>2, <2>3, <2>4
<1>7. /\ Poured(n)' = Burst + y - u /\ u + spent <= t + z
      /\ \/ t = Burst /\ Poured(n) = 0 /\ z = 0
         \/ Poured(n) = Burst + w - t
  <2>1. l = now => z = 0
    <3>1. l = now => now - l = 0
      BY <1>3
    <3>2. 0 * PerTick = 0
      BY <1>1
    <3> QED
      BY <3>1, <3>2
  <2> QED
    BY <1>2, <1>4, <1>5, <2>1
<1> HIDE DEF w, y, z
<1>8. Poured(n)' \in Int /\ Poured(n) + spent <= Poured(n)'
  BY <1>1, <1>3, <1>6, <1>7
<1>9. \A m \in Nodes : m # n => Poured(m)' = Poured(m)
  BY <1>2 DEF Poured
<1> QED
  BY <1>8, <1>9 DEF spent

\* The two primaries together.
LEMMA PouredTogether ==
    ASSUME BaseInv
    PROVE  PouredBoth \in Int /\ Share \in Nat /\ Share * resets \in Nat /\ resets \in Nat
<1>1. /\ Poured(PrimaryBefore) \in Int /\ Poured(PrimaryAfter) \in Int /\ Share \in Nat
      /\ resets \in Nat
  BY PouredBounds, NodesAssumption DEF BaseInv, TypeOK
<1>2. Share * resets \in Nat
  BY <1>1, Inflow
<1> QED
  BY <1>1, <1>2 DEF PouredBoth

\* What comes on top on both sides.
LEMMA MoreOnBothSides ==
    ASSUME NEW new \in Nat, NEW old \in Nat, NEW lim \in Nat, NEW more \in Nat,
           NEW p \in Int, NEW q \in Int,
           old <= lim + p, new <= old + more, p + more <= q
    PROVE  new <= lim + q
OBVIOUS

\* What a crash takes away is a share at most.
LEMMA ShareInstead ==
    ASSUME NEW new \in Nat, NEW old \in Nat, NEW lim \in Nat, NEW share \in Nat,
           NEW p \in Int, NEW q \in Int,
           old <= lim + p, new <= old, p <= q + share
    PROVE  new <= (lim + share) + q
OBVIOUS

\* Nothing is let through that was not poured out.
LEMMA LimitStep ==
    ASSUME BaseInv, BaseInv', LimitInv, [Next]_vars
    PROVE  LimitInv'
<1> USE DEF BaseInv
<1>0. /\ PouredBoth \in Int /\ Share \in Nat /\ Share * resets \in Nat /\ resets \in Nat
      /\ Cost \in Nat /\ Passes \in Nat /\ Passes' \in Nat
  <2>1. Passes' \in Nat
    <3>1. /\ Cardinality(Admitted') \in Nat /\ Cardinality(GrantsIn(req', call')) \in Nat
      BY AdmittedSets, GrantPairs
    <3> QED
      BY <3>1 DEF Passes
  <2> QED
    BY <2>1, PouredTogether, ConfigNumbers, AdmittedSets
<1> DEFINE old == Cost * Passes
           new == Cost * Passes'
           lim == Share * resets
<1>1. old \in Nat /\ lim \in Nat /\ new \in Nat /\ old <= lim + PouredBoth
  BY <1>0, Inflow DEF LimitInv
<1>2. ASSUME Passes' <= Passes
      PROVE  new <= old
  BY <1>0, <1>2, FactorGrows, Zenon
<1>3. ASSUME Passes' <= Passes, UNCHANGED <<bucket, resets>>, now' \in {now, now + 1}
      PROVE  LimitInv'
  <2>1. PouredBoth' = PouredBoth
    BY <1>3 DEF PouredBoth, Poured
  <2>2. Share' \in Nat /\ Share <= Share'
    <3>1. PerTick \in Nat /\ Burst \in Nat /\ now \in Nat /\ 1 <= now
      BY PerTickType, ConfigNumbers DEF TypeOK
    <3>2. PICK t \in Nat : t = now' /\ now <= t
      BY <1>3, <3>1
    <3>3. Share' = Burst + PerTick * (t - 1) /\ Share = Burst + PerTick * (now - 1)
      BY <3>2 DEF Share
    <3> QED
      BY <3>1, <3>2, <3>3, ShareGrows
  <2>3. Share' * resets \in Int /\ lim <= Share' * resets
    <3>1. PICK h \in Int : h = Share' /\ Share <= h
      BY <2>2
    <3>2. Share * resets <= h * resets /\ h * resets \in Int /\ Share \in Int
      <4>1. Share \in Int
        BY <1>0
      <4> QED
        BY <1>0, <3>1, <4>1, ProductGrows, Zenon
    <3> QED
      BY <3>1, <3>2
  <2>4. new <= old
    BY <1>2, <1>3
  <2> DEFINE lim2 == Share' * resets
  <2> HIDE DEF old, new, lim, lim2
  <2>5. new <= lim2 + PouredBoth
    BY <1>0, <1>1, <2>3, <2>4 DEF lim2
  <2> QED
    BY <1>3, <2>1, <2>5 DEF LimitInv, new, lim2
<1>4. ASSUME NEW r \in Reqs, NEW n \in Primaries, NEW x \in Decisions, Taken(n, r, x),
             UNCHANGED <<now, resets>>, Passes' <= Passes + (IF x = "allowed" THEN 1 ELSE 0)
      PROVE  LimitInv'
  <2> DEFINE g == IF x = "allowed" THEN 1 ELSE 0
             spent == IF x = "allowed" THEN Cost ELSE 0
  <2>0. g \in Nat /\ spent \in Nat /\ Cost * g = spent /\ n \in Nodes
    BY <1>0, NodesAssumption DEF Primaries
  <2>1. /\ Poured(n)' \in Int /\ Poured(n) + spent <= Poured(n)'
        /\ \A m \in Nodes : m # n => Poured(m)' = Poured(m)
    BY <1>4, <2>0, TakePours
  <2>2. PouredBoth' \in Int /\ PouredBoth + spent <= PouredBoth'
    <3>1. /\ PrimaryBefore \in Nodes /\ PrimaryAfter \in Nodes
          /\ Poured(PrimaryBefore) \in Int /\ Poured(PrimaryAfter) \in Int
      BY NodesAssumption, PouredBounds
    <3>2. PouredBoth' = Poured(PrimaryBefore)' + (IF PrimaryAfter = PrimaryBefore THEN 0 ELSE Poured(PrimaryAfter)')
      BY DEF PouredBoth
    <3> HIDE DEF spent
    <3>3. CASE n = PrimaryBefore
      <4>1. PrimaryAfter # PrimaryBefore => Poured(PrimaryAfter)' = Poured(PrimaryAfter)
        BY <2>1, <3>1, <3>3
      <4>2. /\ Poured(PrimaryBefore)' \in Int
            /\ Poured(PrimaryBefore) + spent <= Poured(PrimaryBefore)'
        BY <2>1, <3>3
      <4> QED
        BY <2>0, <3>1, <3>2, <4>1, <4>2 DEF PouredBoth
    <3>4. CASE n = PrimaryAfter /\ PrimaryAfter # PrimaryBefore
      <4>1. Poured(PrimaryBefore)' = Poured(PrimaryBefore)
        BY <2>1, <3>1, <3>4
      <4>2. /\ Poured(PrimaryAfter)' \in Int
            /\ Poured(PrimaryAfter) + spent <= Poured(PrimaryAfter)'
        BY <2>1, <3>4
      <4> QED
        BY <2>0, <3>1, <3>2, <3>4, <4>1, <4>2 DEF PouredBoth
    <3> QED
      BY <3>3, <3>4 DEF Primaries
  <2>3. new <= old + spent
    <3>1. Passes' * Cost <= (Passes + g) * Cost
      <4>1. Passes + g \in Int /\ Passes' \in Int /\ Passes' <= Passes + g
        BY <1>0, <1>4, <2>0
      <4> QED
        BY <1>0, <4>1, ProductGrows
    <3>2. (Passes + g) * Cost = Passes * Cost + g * Cost
      BY <1>0, <2>0, Distributes
    <3>3. Passes' * Cost = new /\ Passes * Cost = old /\ g * Cost = spent
      BY <1>0, <2>0
    <3> QED
      BY <3>1, <3>2, <3>3
  <2>4. Share' = Share /\ resets' = resets
    BY <1>4 DEF Share
  <2> HIDE DEF old, new, lim, spent
  <2>5. new <= lim + PouredBoth'
    <3>1. PICK b \in Int : b = PouredBoth' /\ PouredBoth + spent <= b
      BY <2>2
    <3>2. spent \in Nat /\ PouredBoth \in Int
      BY <1>0, <2>0
    <3>3. new <= lim + b
      BY <1>1, <2>3, <3>1, <3>2, MoreOnBothSides, Zenon
    <3> QED
      BY <3>1, <3>3
  <2> QED
    BY <2>4, <2>5 DEF LimitInv, new, lim
<1>5. ASSUME NEW n \in Nodes, Crash(n), Passes' <= Passes
      PROVE  LimitInv'
  <2>0. new <= old
    BY <1>2, <1>5
  <2>1. /\ bucket' = [bucket EXCEPT ![n] = Absent] /\ Share' = Share
        /\ resets' = IF bucket[n] = Absent THEN resets ELSE resets + 1
    BY <1>5 DEF Crash, Share
  <2>2. /\ PrimaryBefore \in Nodes /\ PrimaryAfter \in Nodes
        /\ Poured(PrimaryBefore) \in Int /\ Poured(PrimaryAfter) \in Int
        /\ Poured(n) \in Int /\ (bucket[n] # Absent => Poured(n) <= Share /\ n \in Primaries)
        /\ (bucket[n] = Absent => Poured(n) = 0)
    BY NodesAssumption, PouredBounds DEF PlaceInv
  <2>3. /\ Poured(n)' = 0
        /\ \A m \in Nodes : m # n => Poured(m)' = Poured(m)
    <3>1. bucket'[n] = Absent /\ \A m \in Nodes : m # n => bucket'[m] = bucket[m]
      BY <2>1 DEF TypeOK
    <3> QED
      BY <3>1 DEF Poured
  <2>4. PouredBoth' = Poured(PrimaryBefore)' + (IF PrimaryAfter = PrimaryBefore THEN 0 ELSE Poured(PrimaryAfter)')
    BY DEF PouredBoth
  <2>5. CASE bucket[n] = Absent
    <3>1. Poured(PrimaryBefore)' = Poured(PrimaryBefore) /\ Poured(PrimaryAfter)' = Poured(PrimaryAfter)
      BY <2>2, <2>3, <2>5
    <3>2. PouredBoth' = PouredBoth /\ resets' = resets
      BY <2>1, <2>4, <2>5, <3>1 DEF PouredBoth
    <3> HIDE DEF old, new, lim
    <3>3. new <= lim + PouredBoth
      BY <1>0, <1>1, <2>0
    <3> QED
      BY <2>1, <3>2, <3>3 DEF LimitInv, new, lim
  <2>6. CASE bucket[n] # Absent
    <3>1. PouredBoth' \in Int /\ PouredBoth <= PouredBoth' + Share
      <4>1. CASE n = PrimaryBefore
        <5>1. PrimaryAfter # PrimaryBefore => Poured(PrimaryAfter)' = Poured(PrimaryAfter)
          BY <2>2, <2>3, <4>1
        <5>2. Poured(PrimaryBefore)' = 0 /\ Poured(PrimaryBefore) <= Share
          BY <2>2, <2>3, <2>6, <4>1
        <5> QED
          BY <1>0, <2>2, <2>4, <5>1, <5>2 DEF PouredBoth
      <4>2. CASE n = PrimaryAfter /\ PrimaryAfter # PrimaryBefore
        <5>1. Poured(PrimaryBefore)' = Poured(PrimaryBefore)
          BY <2>2, <2>3, <4>2
        <5>2. Poured(PrimaryAfter)' = 0 /\ Poured(PrimaryAfter) <= Share
          BY <2>2, <2>3, <2>6, <4>2
        <5> QED
          BY <1>0, <2>2, <2>4, <4>2, <5>1, <5>2 DEF PouredBoth
      <4> QED
        BY <2>2, <2>6, <4>1, <4>2 DEF Primaries
    <3>2. resets' = resets + 1 /\ Share * (resets + 1) = lim + Share
      <4>1. (resets + 1) * Share = resets * Share + 1 * Share
        BY <1>0, Distributes
      <4>2. (resets + 1) * Share = Share * (resets + 1) /\ resets * Share = lim /\ 1 * Share = Share
        BY <1>0
      <4> QED
        BY <2>1, <2>6, <4>1, <4>2
    <3> HIDE DEF old, new, lim
    <3>3. new <= (lim + Share) + PouredBoth'
      <4>1. PICK b \in Int : b = PouredBoth' /\ PouredBoth <= b + Share
        BY <3>1
      <4>2. Share \in Nat /\ PouredBoth \in Int
        BY <1>0
      <4>3. new <= (lim + Share) + b
        BY <1>1, <2>0, <4>1, <4>2, ShareInstead, Zenon
      <4> QED
        BY <4>1, <4>3
    <3> QED
      BY <2>1, <3>2, <3>3 DEF LimitInv, new
  <2> QED
    BY <2>5, <2>6
<1>6. ASSUME NEW r \in Reqs, Middleware(r)
      PROVE  LimitInv'
  <2>1. Passes' <= Passes
    BY <1>6, MiddlewareGrants
  <2>2. UNCHANGED <<bucket, resets, now>>
    BY <1>6, MiddlewareKinds DEF NodesRest, cluster, past
  <2> QED
    BY <1>3, <2>1, <2>2
<1>7. ASSUME Outside
      PROVE  LimitInv'
  BY <1>3, <1>4, <1>5, <1>7, OutsideGrants
<1> QED
  BY <1>6, <1>7, TwoSides

\* For every cluster, every join and any number of requests, retries, crashes
\* and late takes, the requests that passed on a decision cost no more than one
\* share for every primary's bucket that there is, or was when its node crashed.
THEOREM LimitIsKept == Spec => []AdmittedWithinLimit
<1>1. ASSUME Init
      PROVE  LimitInv
  <2>1. Admitted = {}
    BY <1>1 DEF Init, Admitted
  <2>2. GrantsIn(req, call) = {}
    <3>1. \A r \in Reqs, i \in Attempts : ~Grant(req[r], i, call[r][i])
      BY <1>1 DEF Init, Grant
    <3> QED
      BY <3>1, GrantPairs
  <2>3. Passes = 0
    BY <2>1, <2>2, FS_EmptySet DEF Passes
  <2>4. PouredBoth = 0
    BY <1>1, NodesAssumption DEF Init, PouredBoth, Poured
  <2>5. Cost * 0 = 0 /\ resets = 0 /\ Share * 0 = 0
    <3>1. Cost \in Nat /\ Share \in Nat
      BY <1>1, BaseInit, PouredTogether, ConfigNumbers
    <3> QED
      BY <1>1, <3>1 DEF Init
  <2> QED
    BY <2>3, <2>4, <2>5 DEF LimitInv
<1>2. ASSUME BaseInv, LimitInv
      PROVE  AdmittedWithinLimit
  <2> DEFINE made == {n \in Nodes : bucket[n] # Absent}
             k == Cardinality(made)
  <2>1. made \subseteq Primaries
    BY <1>2 DEF BaseInv, PlaceInv
  <2>2. k \in Nat /\ Share * k \in Nat /\ PouredBoth <= Share * k
    <3>0. /\ PrimaryBefore \in Nodes /\ PrimaryAfter \in Nodes /\ Share \in Nat
          /\ Poured(PrimaryBefore) \in Int /\ Poured(PrimaryAfter) \in Int
          /\ \A n \in Nodes : bucket[n] # Absent => Poured(n) <= Share
          /\ \A n \in Nodes : bucket[n] = Absent => Poured(n) = 0
      BY <1>2, NodesAssumption, PouredBounds
    <3>1. /\ \A x \in {0, 1, 2} : Share * x \in Nat
          /\ Share * 0 = 0 /\ Share * 1 = Share /\ Share * 2 = Share + Share
      BY <3>0
    <3>2. CASE made = {}
      <4>1. k = 0
        BY <3>2, FS_EmptySet
      <4>2. Poured(PrimaryBefore) = 0 /\ Poured(PrimaryAfter) = 0
        BY <3>0, <3>2
      <4>3. PouredBoth = 0
        BY <4>2 DEF PouredBoth
      <4> QED
        BY <3>1, <4>1, <4>3
    <3>3. ASSUME NEW n \in Primaries, made = {n}
          PROVE  k \in Nat /\ Share * k \in Nat /\ PouredBoth <= Share * k
      <4>1. k = 1
        BY <3>3, FS_Singleton
      <4>2. /\ n \in Nodes /\ Poured(n) <= Share
            /\ \A m \in Nodes : m # n => Poured(m) = 0
        BY <3>0, <3>3
      <4>3. PouredBoth <= Share
        BY <3>0, <4>2 DEF PouredBoth, Primaries
      <4> HIDE DEF k
      <4> QED
        BY <3>0, <3>1, <4>1, <4>3
    <3>4. CASE made = Primaries /\ PrimaryBefore # PrimaryAfter
      <4>1. k = 2
        <5>1. IsFiniteSet({PrimaryBefore}) /\ Cardinality({PrimaryBefore}) = 1
          BY FS_Singleton
        <5>2. Cardinality({PrimaryBefore} \cup {PrimaryAfter}) = Cardinality({PrimaryBefore}) + 1
          BY <3>4, <5>1, FS_AddElement, Zenon
        <5>3. made = {PrimaryBefore} \cup {PrimaryAfter}
          BY <3>4 DEF Primaries
        <5> QED
          BY <5>1, <5>2, <5>3
      <4>2. PrimaryBefore \in made /\ PrimaryAfter \in made
        BY <3>4 DEF Primaries
      <4>3. Poured(PrimaryBefore) <= Share /\ Poured(PrimaryAfter) <= Share
        BY <3>0, <4>2
      <4>4. PouredBoth <= Share + Share
        BY <3>0, <4>3, <3>4 DEF PouredBoth
      <4> HIDE DEF k
      <4> QED
        BY <3>1, <4>1, <4>4
    <3> QED
      BY <2>1, <3>2, <3>3, <3>4 DEF Primaries
  <2>3. /\ Share * resets \in Nat /\ resets \in Nat /\ PouredBoth \in Int /\ Share \in Nat
        /\ Cost \in Nat /\ Passes \in Nat
    BY <1>2, PouredTogether, ConfigNumbers, AdmittedSets
  <2> HIDE DEF k
  <2>4. Share * (k + resets) = Share * k + Share * resets
    BY <2>2, <2>3
  <2>5. Cost * Cardinality(Admitted) <= Cost * Passes /\ Cost * Cardinality(Admitted) \in Nat
        /\ Cost * Passes \in Nat
    <3>1. Cardinality(Admitted) \in Nat /\ Cardinality(Admitted) <= Passes
      BY AdmittedSets, GrantPairs DEF Passes
    <3> QED
      BY <2>3, <3>1, FactorGrows, Zenon
  <2> DEFINE a == Cost * Cardinality(Admitted)
             b == Cost * Passes
             x == Share * resets
             y == Share * k
  <2>6. a \in Nat /\ b \in Nat /\ a <= b /\ b <= x + PouredBoth /\ x \in Nat /\ y \in Nat /\ PouredBoth <= y
        /\ PouredBoth \in Int
    BY <1>2, <2>2, <2>3, <2>5 DEF LimitInv
  <2>7. a <= y + x
    <3> HIDE DEF a, b, x, y
    <3> QED
      BY <2>6
  <2>8. Cost * Cardinality(Admitted) <= Share * (k + resets)
    BY <2>4, <2>7
  <2> QED
    BY <2>1, <2>8 DEF AdmittedWithinLimit, Admitted, Share, PerTick, Primaries, k
<1>3. Init => LimitInv
  BY <1>1
<1>4. BaseInv /\ BaseInv' /\ LimitInv /\ [Next]_vars => LimitInv'
  BY LimitStep
<1>5. BaseInv /\ LimitInv => AdmittedWithinLimit
  BY <1>2
<1> QED
  BY <1>3, <1>4, <1>5, BaseAlways, PTL DEF Spec
============================================================================
