------------------------------ MODULE Limiter ------------------------------
(***************************************************************************)
(* Rate limiting from end to end, for one key: the net/http middleware and *)
(* its client (pkg/ratelimit/middleware.go) in one application, and the    *)
(* /v1/ratelimit/take endpoint of the cluster (internal/node/node.go),     *)
(* which forwards to the key's primary.                                    *)
(*                                                                         *)
(* A request that passes the in-flight limiter asks the addresses of the   *)
(* cluster in turn, each for at most Timeout, until one answers, and is    *)
(* let through if none does.  An attempt that the client has given up on   *)
(* is still on its way through coordinator and primary.                    *)
(*                                                                         *)
(* A node's bucket for the key is module TokenBucket.  Every coordinator   *)
(* finds the primary on its own ring: a join moves the key from            *)
(* PrimaryBefore to PrimaryAfter, for one coordinator after the other.     *)
(*                                                                         *)
(* The middleware takes no time but to wait for an answer, and its timers  *)
(* fire on time: this is what TimePasses says.  Handlers of the            *)
(* application and the nodes take as long as they like.                    *)
(***************************************************************************)
EXTENDS TokenBucket, Sequences, FiniteSets

CONSTANTS
    Nodes,          \* processes of the cluster
    Addrs,          \* Client.Addrs: the nodes that the client asks, in turn
    PrimaryBefore,  \* primary of the key before a join ...
    PrimaryAfter,   \*   ... and after it; the same if there is none
    Reqs,           \* requests of the application's clients
    Rate, Burst, Cost,  \* the middleware's Config, after its defaults
    MaxInFlight,    \* requests at a time; 0 would switch this limiter off
    Timeout,        \* Client.Timeout, in ticks
    Faults,         \* subset of {"rpc", "hangup"}
    MaxCrashes,     \* bound on the number of crashes
    LastArrival,    \* bound on the clock: no request comes later
    Absent

ASSUME ConfigAssumption ==
    /\ Rate \in Rates /\ Burst \in Bursts /\ Cost \in Costs
    /\ MaxInFlight \in Nat \ {0} /\ Timeout \in Nat \ {0}
    /\ MaxCrashes \in Nat /\ LastArrival \in Nat \ {0}
ASSUME NodesAssumption ==
    /\ Addrs \in Seq(Nodes) /\ Addrs # <<>>
    /\ PrimaryBefore \in Nodes /\ PrimaryAfter \in Nodes
    /\ IsFiniteSet(Reqs)
    /\ Absent \notin Nodes \cup Bucket

VARIABLES
    (* The nodes. *)
    up,         \* the processes that run
    primary,    \* primary[n]: the primary of the key on the ring of n
    bucket,     \* bucket[n]: the key's bucket in the store of n
    marked,     \* marked[n]: the peers that n has marked down
    (* The middleware. *)
    dryRun,     \* Config.DryRun
    inflight,   \* the counter of the key
    FailOpenTotal,
    req,        \* req[r]: the handler of request r
    call,       \* call[r][i]: its attempt at coordinator Addrs[i]
    (* History variables, read by no action but the bound on crashes. *)
    charged,    \* charged[r]: how often some bucket was charged for r
    crashes,    \* crashes so far
    resets      \* buckets lost with them

cluster == <<up, primary, bucket, marked>>
past == <<charged, crashes, resets>>
vars == <<now, cluster, dryRun, inflight, FailOpenTotal, req, call, past>>

Attempts == DOMAIN Addrs
Decisions == {"allowed", "denied"}

\* Bound on the clock: as long as the last Take may last.
MaxTime == LastArrival + Len(Addrs) * Timeout

Request ==
    [pc: {"idle", "load", "cas", "try", "wait", "serve", "done"},
     cur: Nat,          \* the counter as acquireInflight has loaded it
     slot: BOOLEAN,     \* there is a release to run
     idx: Nat,          \* position in Addrs
     deadline: Nat,     \* when the attempt times out
     reply: {"none", "error"} \cup Decisions,   \* answer to it, unread
     verdict: {"none", "busy", "failopen", "dryrun"} \cup Decisions,
     (* History, read by no action. *)
     began: Nat,                \* when Take began
     lost: SUBSET Attempts,     \* attempts without a usable answer
     hung: BOOLEAN]             \* the client went away during Take

\* The client's call, and the one to which the coordinator forwards it: to a
\* node, until it is over, and a decision once it is on its way back.
Call ==
    [outer: {"none", "sent", "fwd"}, to: Nodes \cup {Absent},
     inner: {"none", "sent", "lost"} \cup Decisions]

TypeOK ==
    /\ now \in 1..MaxTime
    /\ up \in SUBSET Nodes
    /\ primary \in [Nodes -> Nodes]
    /\ bucket \in [Nodes -> Bucket \cup {Absent}]
    /\ \A n \in Nodes : bucket[n] # Absent => bucket[n].tokens <= Burst
    /\ marked \in [Nodes -> SUBSET Nodes]
    /\ dryRun \in BOOLEAN
    /\ inflight \in Nat /\ FailOpenTotal \in Nat
    /\ req \in [Reqs -> Request]
    /\ call \in [Reqs -> [Attempts -> Call]]
    /\ charged \in [Reqs -> Nat] /\ crashes \in Nat /\ resets \in Nat

\* The joining node is started with the new membership.
FirstPrimary(n) == IF n = PrimaryAfter THEN PrimaryAfter ELSE PrimaryBefore

Init ==
    /\ now = 1
    /\ up = Nodes
    /\ primary = [n \in Nodes |-> FirstPrimary(n)]
    /\ bucket = [n \in Nodes |-> Absent]
    /\ marked = [n \in Nodes |-> {}]
    /\ dryRun \in BOOLEAN
    /\ inflight = 0 /\ FailOpenTotal = 0
    /\ req = [r \in Reqs |->
                [pc |-> "idle", cur |-> 0, slot |-> FALSE, idx |-> 0, deadline |-> 0,
                 reply |-> "none", verdict |-> "none", began |-> 0, lost |-> {}, hung |-> FALSE]]
    /\ call = [r \in Reqs |-> [i \in Attempts |->
                 [outer |-> "none", to |-> Absent, inner |-> "none"]]]
    /\ charged = [r \in Reqs |-> 0] /\ crashes = 0 /\ resets = 0
----------------------------------------------------------------------------
(* The in-flight limiter. *)

Arrive(r) ==
    /\ req[r].pc = "idle" /\ now <= LastArrival
    /\ req' = [req EXCEPT ![r].pc = "load"]
    /\ UNCHANGED <<now, cluster, dryRun, inflight, FailOpenTotal, call, past>>

\* Client.Take starts with the first address.
Taking(q) == [q EXCEPT !.pc = "try", !.cur = 0, !.idx = 1, !.began = now]

\* At the limit a request is turned away, or goes on without a slot.
Load(r) ==
    /\ req[r].pc = "load"
    /\ \/ /\ inflight < MaxInFlight
          /\ req' = [req EXCEPT ![r].pc = "cas", ![r].cur = inflight]
       \/ /\ inflight >= MaxInFlight /\ dryRun
          /\ req' = [req EXCEPT ![r] = Taking(@)]
       \/ /\ inflight >= MaxInFlight /\ ~dryRun
          /\ req' = [req EXCEPT ![r].pc = "done", ![r].verdict = "busy"]
    /\ UNCHANGED <<now, cluster, dryRun, inflight, FailOpenTotal, call, past>>

Acquire(r) ==
    /\ inflight' = req[r].cur + 1
    /\ req' = [req EXCEPT ![r] = [Taking(@) EXCEPT !.slot = TRUE]]

CasBlind(r) ==
    /\ req[r].pc = "cas" /\ Acquire(r)
    /\ UNCHANGED <<now, cluster, dryRun, FailOpenTotal, call, past>>

\* CompareAndSwap, or once more round the loop.
Cas(r) ==
    /\ req[r].pc = "cas"
    /\ \/ inflight = req[r].cur /\ Acquire(r)
       \/ /\ inflight # req[r].cur
          /\ req' = [req EXCEPT ![r].pc = "load", ![r].cur = 0]
          /\ UNCHANGED inflight
    /\ UNCHANGED <<now, cluster, dryRun, FailOpenTotal, call, past>>

\* The handler returns; the deferred release runs if there is one.
Return(r, q) ==
    /\ req' = [req EXCEPT ![r] = [q EXCEPT !.pc = "done", !.slot = FALSE]]
    /\ inflight' = IF q.slot THEN inflight - 1 ELSE inflight
----------------------------------------------------------------------------
(* Client.Take, and what the middleware makes of it. *)

Waiting(r, i) == req[r].pc = "wait" /\ req[r].idx = i

\* Every address has a Timeout of its own.
Send(r) ==
    /\ req[r].pc = "try" /\ req[r].idx \in Attempts
    /\ req' = [req EXCEPT ![r].pc = "wait", ![r].deadline = now + Timeout]
    /\ call' = [call EXCEPT ![r][req[r].idx].outer = "sent"]
    /\ UNCHANGED <<now, cluster, dryRun, inflight, FailOpenTotal, past>>

\* The attempt is over: its timer is released.
Cancelled(q) == [q EXCEPT !.deadline = 0, !.reply = "none"]

Passed(q, v) == [q EXCEPT !.pc = "serve", !.verdict = v]

\* Status 200 and a body that can be read.
Decide(r) ==
    /\ req[r].pc = "wait"
    /\ LET q == Cancelled(req[r]) IN
         \/ /\ req[r].reply = "allowed" \/ (req[r].reply = "denied" /\ dryRun)
            /\ req' = [req EXCEPT ![r] =
                         Passed(q, IF req[r].reply = "allowed" THEN "allowed" ELSE "dryrun")]
            /\ UNCHANGED inflight
         \/ /\ req[r].reply = "denied" /\ ~dryRun
            /\ Return(r, [q EXCEPT !.verdict = "denied"])
    /\ UNCHANGED <<now, cluster, dryRun, FailOpenTotal, call, past>>

\* The attempt has failed: status 503, or a connection that broke; an answer
\* whose body cannot be read, since the context is cancelled first; nobody
\* listens at the address; it takes too long.
Failed(r) ==
    \/ req[r].reply # "none"
    \/ call[r][req[r].idx].outer = "sent" /\ Addrs[req[r].idx] \notin up
    \/ now >= req[r].deadline

\* On with the address at position i.
GoOn(r, i, hung) ==
    /\ req' = [req EXCEPT ![r] =
                 [Cancelled(@) EXCEPT !.pc = "try", !.idx = i,
                                      !.lost = req[r].lost \cup {req[r].idx},
                                      !.hung = hung]]
    /\ UNCHANGED <<now, cluster, dryRun, inflight, FailOpenTotal, call, past>>

GiveUpForGood(r) ==
    req[r].pc = "wait" /\ Failed(r) /\ GoOn(r, Len(Addrs) + 1, FALSE)

GiveUp(r) ==
    req[r].pc = "wait" /\ Failed(r) /\ GoOn(r, req[r].idx + 1, FALSE)

\* The client of the application goes away: the context of the request is done,
\* and all further attempts fail at once.
Hangup(r) ==
    "hangup" \in Faults /\ req[r].pc = "wait" /\ GoOn(r, Len(Addrs) + 1, TRUE)

FailOpen(r) ==
    /\ req[r].pc = "try" /\ req[r].idx \notin Attempts
    /\ FailOpenTotal' = FailOpenTotal + 1
    /\ req' = [req EXCEPT ![r] = Passed(@, "failopen")]
    /\ UNCHANGED <<now, cluster, dryRun, inflight, call, past>>

\* next.ServeHTTP returns.
Served(r) ==
    /\ req[r].pc = "serve" /\ Return(r, req[r])
    /\ UNCHANGED <<now, cluster, dryRun, FailOpenTotal, call, past>>
----------------------------------------------------------------------------
(* The endpoint: coordinator n = Addrs[i], and the primary. *)

\* Store.Take at node n, for a key that has a bucket there or gets a full one,
\* which is full after its refill.
Current(n) == IF bucket[n] = Absent THEN NewBucket(Rate, Burst) ELSE bucket[n]

Refills(n) == {refill(Current(n), e) : e \in Roundings}

Decision(full) == IF Grants(full, Cost) THEN "allowed" ELSE "denied"

Charge(r, full) ==
    charged' = [charged EXCEPT ![r] = IF Decision(full) = "allowed" THEN @ + 1 ELSE @]

TakeOnCopy(n, r, full) ==
    /\ bucket' = [bucket EXCEPT ![n] = Current(n)]
    /\ Charge(r, full)

Take(n, r, full) ==
    /\ bucket' = [bucket EXCEPT ![n] = [After(full, Cost) EXCEPT !.lastUsed = now]]
    /\ Charge(r, full)

\* The forwarded call is in state x now; nothing is kept of one that is over.
Inner(c, x) == [c EXCEPT !.inner = x, !.to = IF x = "none" THEN Absent ELSE @]

\* The coordinator answers x; when nobody waits any more that goes nowhere.
Respond(r, i, x, inner) ==
    /\ call' = [call EXCEPT ![r][i] = [Inner(@, inner) EXCEPT !.outer = "none"]]
    /\ req' = [req EXCEPT ![r].reply = IF Waiting(r, i) THEN x ELSE @]

Forward(r, i, p) ==
    /\ call' = [call EXCEPT ![r][i] = [outer |-> "fwd", to |-> p, inner |-> "sent"]]
    /\ UNCHANGED req

handleTakesHereToo(r, i) ==
    /\ call[r][i].outer = "sent" /\ Addrs[i] \in up
    /\ LET n == Addrs[i] IN \E full \in Refills(n) :
         /\ Take(n, r, full)
         /\ IF primary[n] = n THEN Respond(r, i, Decision(full), "none")
                              ELSE Forward(r, i, primary[n])
    /\ UNCHANGED <<now, up, primary, marked, dryRun, inflight, FailOpenTotal, crashes, resets>>

handleRateLimitTake(r, i) ==
    /\ call[r][i].outer = "sent" /\ Addrs[i] \in up
    /\ LET n == Addrs[i] IN
         \/ /\ primary[n] = n
            /\ \E full \in Refills(n) : Take(n, r, full) /\ Respond(r, i, Decision(full), "none")
         \/ /\ primary[n] # n
            /\ Forward(r, i, primary[n])
            /\ UNCHANGED <<bucket, charged>>
    /\ UNCHANGED <<now, up, primary, marked, dryRun, inflight, FailOpenTotal, crashes, resets>>

\* The internal path applies the take, whoever this process holds for the
\* primary, and whether or not anybody still waits for the answer.
handleInternalRateLimitTake(r, i) ==
    /\ call[r][i].inner = "sent" /\ call[r][i].to \in up
    /\ LET n == call[r][i].to IN \E full \in Refills(n) :
         /\ Take(n, r, full)
         /\ call' = [call EXCEPT ![r][i] =
                       Inner(@, IF @.outer = "fwd" THEN Decision(full) ELSE "none")]
    /\ UNCHANGED <<now, up, primary, marked, dryRun, inflight, FailOpenTotal, req, crashes, resets>>

\* forwardRateLimit returns the answer of the primary ...
Relay(r, i) ==
    /\ call[r][i].outer = "fwd" /\ call[r][i].inner \in Decisions
    /\ Respond(r, i, call[r][i].inner, "none")
    /\ UNCHANGED <<now, cluster, dryRun, inflight, FailOpenTotal, past>>

markDown(n, p) == marked' = [marked EXCEPT ![n] = IF p = n THEN @ ELSE @ \cup {p}]

\* ... or an error: the primary does not run, the call took longer than
\* ReplicaTimeout, or the client of this coordinator went away.
ForwardErr(r, i) ==
    /\ call[r][i].outer = "fwd"
    /\ \/ call[r][i].inner = "lost" \/ call[r][i].to \notin up
       \/ ~Waiting(r, i)
       \/ "rpc" \in Faults
    /\ markDown(Addrs[i], call[r][i].to)
    /\ Respond(r, i, "error", IF call[r][i].inner = "sent" THEN "sent" ELSE "none")
    /\ UNCHANGED <<now, up, primary, bucket, dryRun, inflight, FailOpenTotal, past>>
----------------------------------------------------------------------------
(* The nodes. *)

\* Node n is told of the node that joined.
join(n) ==
    /\ n \in up /\ primary[n] # PrimaryAfter
    /\ primary' = [primary EXCEPT ![n] = PrimaryAfter]
    /\ UNCHANGED <<now, up, bucket, marked, dryRun, inflight, FailOpenTotal, req, call, past>>

\* A node that stops takes its buckets and the calls it was serving with it.
Crash(n) ==
    /\ n \in up /\ crashes < MaxCrashes
    /\ up' = up \ {n}
    /\ bucket' = [bucket EXCEPT ![n] = Absent]
    /\ marked' = [marked EXCEPT ![n] = {}]
    /\ LET Broken(r, i) == Addrs[i] = n /\ call[r][i].outer # "none"
           Cut(r, i) == call[r][i].to = n /\ call[r][i].inner = "sent"
       IN  /\ call' = [r \in Reqs |-> [i \in Attempts |->
                         [call[r][i] EXCEPT !.outer = IF Broken(r, i) THEN "none" ELSE @,
                                            !.inner = IF Cut(r, i) THEN "lost" ELSE @]]]
           /\ req' = [r \in Reqs |->
                        IF \E i \in Attempts : Waiting(r, i) /\ Broken(r, i)
                        THEN [req[r] EXCEPT !.reply = "error"] ELSE req[r]]
    /\ crashes' = crashes + 1
    /\ resets' = IF bucket[n] = Absent THEN resets ELSE resets + 1
    /\ UNCHANGED <<now, primary, dryRun, inflight, FailOpenTotal, charged>>

Restart(n) ==
    /\ n \notin up
    /\ up' = up \cup {n}
    /\ primary' = [primary EXCEPT ![n] = FirstPrimary(n)]
    /\ UNCHANGED <<now, bucket, marked, dryRun, inflight, FailOpenTotal, req, call, past>>

TimePasses ==
    /\ now < MaxTime
    /\ \A r \in Reqs : \/ req[r].pc \in {"idle", "serve", "done"}
                       \/ req[r].pc = "wait" /\ now < req[r].deadline
    /\ now' = now + 1
    /\ UNCHANGED <<cluster, dryRun, inflight, FailOpenTotal, req, call, past>>
----------------------------------------------------------------------------
Middleware(r) ==
    \/ Arrive(r) \/ Load(r) \/ Cas(r)
    \/ Send(r) \/ Decide(r) \/ GiveUp(r) \/ Hangup(r) \/ FailOpen(r)
    \/ Served(r)

\* Nobody is asking anything.
Answered == (\A r \in Reqs : req[r].pc \in {"idle", "done"}) /\ UNCHANGED vars

Next ==
    \/ \E r \in Reqs : Middleware(r)
    \/ \E r \in Reqs, i \in Attempts : \/ handleRateLimitTake(r, i)
                                       \/ handleInternalRateLimitTake(r, i)
                                       \/ Relay(r, i) \/ ForwardErr(r, i)
    \/ \E n \in Nodes : join(n) \/ Crash(n) \/ Restart(n)
    \/ TimePasses
    \/ Answered

Spec == Init /\ [][Next]_vars
----------------------------------------------------------------------------
(* Properties. *)

\* The counter is the number of requests that hold a slot, and never more than
\* MaxInFlight, however the loads and swaps of acquireInflight interleave with
\* releases; a request holds its slot through the whole of Take and of the
\* handler, and no longer.
SlotsHeld ==
    /\ inflight = Cardinality({r \in Reqs : req[r].slot})
    /\ inflight <= MaxInFlight
    /\ \A r \in Reqs : LET busy == req[r].pc \in {"try", "wait", "serve"}
                       IN  (req[r].slot => busy) /\ (busy /\ ~dryRun => req[r].slot)

\* What a bucket let through stays within the limit of the key: one burst and
\* the refill since the start, with what its rounding may add, once for every
\* primary, before and after a join, that has a bucket, and once for every
\* bucket that a crash has lost.  Retries at several coordinators, forwards that
\* fail, takes that are applied late and concurrent requests let no more
\* through, and no other node has a bucket.
AdmittedWithinLimit ==
    LET made == {n \in Nodes : bucket[n] # Absent}
    IN  /\ made \subseteq {PrimaryBefore, PrimaryAfter}
        /\ Cost * Cardinality({r \in Reqs : req[r].verdict = "allowed"})
             <= (Burst + (Rate + Ulp) * (now - 1)) * (Cardinality(made) + resets)

\* A request is charged at most once for each attempt that came to nothing, and
\* once for the answer that let it through: no attempt is charged twice, on its
\* way through a coordinator or later.
ChargedOncePerAttempt ==
    \A r \in Reqs :
        charged[r] <= Cardinality(req[r].lost)
                      + (IF req[r].pc = "wait" \/ req[r].verdict = "allowed" THEN 1 ELSE 0)

\* Failing open is the last resort: the counter is the number of requests let
\* through without an answer, and each of them has tried every address, unless
\* its client went away.
FailOpenJustified ==
    /\ FailOpenTotal = Cardinality({r \in Reqs : req[r].verdict = "failopen"})
    /\ \A r \in Reqs : req[r].verdict = "failopen" => req[r].hung \/ req[r].lost = Attempts

\* A request that the cluster does not answer within Client.Timeout is let
\* through: this is what the documentation of Middleware says of Take.
TakeWithinTimeout ==
    \A r \in Reqs : req[r].pc \in {"try", "wait"} => now <= req[r].began + Timeout
============================================================================
