# A TLA+ model of ringcache

ringcache is a distributed in-memory cache: one Go process per node, a
consistent-hash ring with virtual nodes, an LRU+TTL store per node, synchronous
fan-out of writes to the R owners of a key, and a token-bucket rate limiter on
top. This directory models its core in TLA+, checks the models with TLC and
proves their safety properties, and the refinement, with TLAPS. Paths below are
relative to the repository.

## 1. Inventory

| Component | State | Operations | Talks to | What is hard | What makes it correct |
| --- | --- | --- | --- | --- | --- |
| Local store, `internal/store/store.go` | map `items`, list `ll`, counters, janitor goroutine, stop channels | `Get`, `Set`, `Delete`, `sweep`, `Close` | called by the node | two structures kept in step; removal while walking; late ticks; boundaries of expiry and capacity; shutdown | map = list, capacity, LRU, last writer wins, sweeps complete and only of expired keys, `Close` returns |
| Data plane, `internal/node/node.go` | `downUntil`, requests in flight, RPCs on the wire | `handleSet/Get/Delete`, `handleInternalKV`, `fanout`, `readOwner`, `writeOwner`, `readRepair`, `markDown/isDown` | stores of all owners through HTTP; the ring for placement | coordinators race; RPCs time out and are served late; repairs run after the answer; crashes empty a node; partial failure | stamps never go back on a replica, acked writes are seen, nothing is made up, every request is answered, the breaker is brief |
| Ring, `internal/ring/ring.go` | `nodes`, sorted `ring` | `Add`, `Remove`, `Owners`, `Primary` | used by the node | wrap-around, collisions, long join/leave histories | owners are the clockwise-nearest nodes; a change moves nothing between the others |
| Membership, `node.go` `join`/`leave` | `peers`, the ring | `/admin/members` | data plane reads both | two locks, two halves | ring and peer map agree; no acked key goes missing while a join is told to one process after the other |
| Rate limiter, `internal/ratelimit`, `node.go` `handleRateLimitTake` | buckets, order slice, janitor | `Take`, `sweep`, forwarding to the primary | the ring's primary | refill arithmetic, changes of rate and burst, eviction at capacity, a forwarded take that times out | never more than burst + rate·t tokens from one bucket; slice = map |
| Client middleware, `pkg/ratelimit/middleware.go` | in-flight counters, fail-open counter | `Take`, the handler, `acquireInflight` | any coordinator | retries at the next address after an answer was lost, the compare-and-swap loop at the limit | at most MaxInFlight, one charge per attempt, fail open last |
| `/health`, `/stats`, `/ring`; `cmd/ringcache` | none | formatting, flags | | | not modelled |
| `cmd/bench`, `cmd/ratebench`, `examples`, `scripts` | none of the system's | load generation, demos | | | not modelled |

`PROJECT.json` lists the hazards one by one, at their lines.

## 2. Modules

| Module | Models | Used by | Theorems in |
| --- | --- | --- | --- |
| `Store` | one process's store with its janitor | `MCStore` | `StoreProofs` |
| `Cluster` | reads, writes, deletes, repairs and the breaker for one key on several nodes, each with its own ring | `MCCluster` | `ClusterProofs` |
| `Copies` | what the data plane promises about one key, without rings, messages or clocks | instantiated by `Cluster` | `ClusterProofs` |
| `Ring` | placement of keys | `MCRing`, `Membership` | `RingProofs` |
| `Membership` | ring and peer map of one process under concurrent administration | `MCMembership` | `MembershipProofs` |
| `TokenBucket` | one token bucket: refill, take, the wait it reports | `RateLimit`, `Limiter` | `BucketFacts` |
| `RateLimit` | one process's token buckets, their LRU order and their janitor | `MCRateLimit` | `RateLimitProofs` |
| `Limiter` | rate limiting from the middleware's handler to the primary's bucket, for one key | `MCLimiter` | `LimiterProofs` |
| `Places` | sublists by the places that are kept: the loops that append what passes a test to a new slice | `Ring`, `RateLimit` | `ListFacts` |

The `MC*` modules only name constants and symmetries; each `.cfg` is one instance.
Operators whose name says what is wrong with them (`NeverStale`,
`EvictionsOffByOne`, `WalkToEnd`, ...) are deliberate mistakes: each stands
before the definition it would replace, and replacing it makes TLC report the
property that guards against the mistake.

### Store

`items`, `ll` and `stats` are the fields of the Go struct (`ll` holds keys, front
first). `Get`, `Set` and `Delete` hold the mutex throughout, so each is one step,
split into the paths of the code: `GetMiss/GetExpired/GetHit`,
`SetStale/SetUpdate/SetInsert`, `DeleteMiss/DeleteHit`. The janitor is its own
process (`jpc`): it takes a tick from the one-slot channel of the ticker
(`tickC`), waits for the mutex (`"lock"`), and visits the list from the back, one
element per step (`SweepElem`), while the mutex keeps callers out (`Callable`).
The tick it works from may be older than the clock. `Close` closes the stop
channel and waits. Time is a counter; 0 is the zero `time.Time`. `lastUse`,
`presented` and `inserted` (how many entries `Set` has made) are history variables
that no action reads.

### Cluster

One key. `Walk` lists the nodes in the order in which the walk around the ring
meets them from the key, and `members[n]` the ids on the ring of process `n`, so
that `RingOwners(n)` is `ring.Owners(key, R)` there, with R capped as `New` caps
it. `join` and `leave` tell one process of a change; a handler keeps the owners
it has read (`owners`) and finds a peer unknown when that has left since
(`WriteUnknown`, `WalkUnknown`). A node's store is reduced to what it does
for that key: `StoreGet` (with lazy expiry), `StoreSet` (last writer wins),
deletion, eviction caused by other keys, the sweep. A request goes through
`handleSet`/`handleDelete` (fan-out to all owners at once; `wire` is the RPC,
`verdict` what `fanout` has heard), or `handleGet` (a walk, itself first, with
`readOwner`'s three ways: local, skipped by the breaker, RPC). The coordinator
may give up on an RPC whenever `CanFail` says so: the write stays on the wire and
is served late, or never, which is how it is lost. A hit sends repairs to the other
owners, which nobody waits for. Nodes crash, losing store, breaker and the writes to
their own store that their goroutines had not done yet, and come back empty; what
other processes have sent reaches the restarted one. `lastErr` (when an RPC last
failed) and `nameless` (for which owners a URL was missing, `NoURL`, so that no RPC
was made) are histories: the two reasons the code has for a mark. TTLs
travel in whole milliseconds, of which each is `Ms` ticks, rounded down: that
conversion (`getPayload`, `FromPayload`, `RepairTTL`) is modelled as it is. The
clock may move between the two readings of it in a repair (`slip`). All nodes
share one clock; stamps of different SETs come in any order, which is what skew
between coordinators amounts to. Requests that validation rejects, and an empty
ring, change nothing and are left out.

`Cluster` implements `Copies`: each node has at most one copy of the key, which is
some client's value with the stamp of its SET; copies are forgotten at any time,
and taken up at any time but never for a newer one; a read returns what some node
held while the read was open. The mapping (`CopiesSpec`) takes the SETs that have
arrived for the issued values, a node's entry without its deadline for its copy,
and what a GET has been answered so far for its answer. Deadlines, rings, RPCs and
the breaker have no counterpart in `Copies`: none of them may show.

### Ring

Init leaves open where the virtual nodes fall: the hash is an arbitrary function
onto a small circle, so every collision and every wrap-around occurs. `Before` is
the comparison of `sort.Slice`, `Search` is `sort.Search` with its wrap, and
`OwnersOn` the walk that collects distinct nodes: of the places it passes, the first
of each node (`met`), in order. The property `OwnersAreClosest` says the same
without a ring: a node's `Distance` is the way clockwise to its nearest virtual
node, and the list is the nodes that are `Nearer` than all others. `Add` and `Remove` are called
`AddNode` and `RemoveNode`, since `Remove` is a sequence operator.

### Membership

A call of `join` or `leave` is two steps, one per lock. One data-plane request
reads its owners from the ring (`Route`) and looks up their URLs one at a time
(`Contact`); every error marks the owner down, an unknown peer included. Calls
that validation rejects change nothing and are left out, except that a process
never removes itself, which is `leavePeers`' guard.

### RateLimit

`items` maps a key to its bucket (with the entry's `lastUsed`), `order` is the
slice. `Take` holds the mutex throughout and is one step with two paths, `TakeNew`
(evict, make a full bucket, append) and `TakeKnown` (settle and resize when the
limits changed, touch); both end in `Bucket.Take`, which is `After` (the bucket)
and `Answer` (what the caller hears). `sweep` reads the clock once it has the
mutex, so its body is one step too, which keeps of the slice the places of keys that are
not `Idle`; the tick that starts it is another. The arguments are those that
`parseRateLimitBody` lets through. The history variables are `credit`, what a
key's limits entitle it to since its bucket was made, each refill's rounding
included, less what it was granted, and `denied`, the last refusal a caller was told.

The bucket itself is module `TokenBucket`. The code computes in `float64`. The model
counts in grains, chosen so that a tick refills a whole number of them, and lets the
result of every refill and of every wait be off by any whole number of grains up to
`Ulp`, either way (`Roundings`); the capping at the burst, the rounding of the wait up
to milliseconds (`ceilMs`) and the comparison with the cost act on the rounded
numbers, as in the code. What is subtracted is a whole number of tokens not above
what the bucket holds, which `float64` does exactly.

### Limiter

Two processes meet here. A request of the application (`req[r]`) goes through the
middleware's handler: `Arrive`; `acquireInflight` as a load and a compare-and-swap
(`Load`, `Cas`); `Client.Take`, which sends to one address after the other, each
with a timeout of its own (`Send`), until one decides (`Decide`) or all have failed
(`GiveUp`, `FailOpen`); the application's handler and the deferred release
(`Served`, `Return`). `call[r][i]` is its attempt at `Addrs[i]`: `outer` is the
call of the client, `inner` the one that a coordinator which is not the primary
forwards (`handleRateLimitTake`, `handleInternalRateLimitTake`, `Relay`,
`ForwardErr`). Giving up ends neither: the coordinator may not have started yet,
and a forwarded take is applied when it arrives. An answer may be read, or be
lost because `cancel()` runs before the body is read (`middleware.go:98`):
`Decide` and `GiveUp` are both enabled then. `Hangup` is a client of the
application that goes away, which ends all attempts at once. A join moves the key
from `PrimaryBefore` to `PrimaryAfter` for one coordinator after the other; a
crash loses a node's bucket and breaks the calls it serves.

The middleware's own steps take no time, and timers fire when they are due
(`TimePasses`); nodes and application handlers may take any time. The bucket of
the key is never swept or evicted here, which is `RateLimit`'s subject, and the
limits are those of one middleware, so they do not change.

## 3. Runs

| Run | Instance | Checks | Shows |
| --- | --- | --- | --- |
| `store_ops` | 3 keys, capacity 2, 2 stamps, TTL 0 or 1, 5 calls, sweep every 2 ticks | `TypeOK`, `ListMatchesMap`, `WithinCapacity`, `RecencyOrder`, `NewestWins`, `StatsBalance`, `SweepComplete`, `EvictsLRU`, `ExpiresOnlyExpired` | the store is a correct LRU+TTL cache under any interleaving with its janitor |
| `store_live` | 2 keys, 3 calls, fairness | `ExpiredIsSwept`, `CloseTerminates` | expired items go away, `Close` returns |
| `cluster_writes` | 3 nodes, 2 owners, 2 SETs, 1 GET, 2 stamps, lost and late RPCs | `FreshReads`, `RepairReaches`, `StampsNeverGoBack`, `RefinesCopies` | replication keeps its promises among racing coordinators; the data plane implements `Copies` |
| `cluster_faults` | 2 nodes, 1 SET, 1 GET, 1 DELETE, TTL 0 or 1 ms, crashes, RPC errors | `Provenance`, `TypeOK`, `SkippedOnlyAfterError` | nothing is made up and the breaker is only opened by errors, whatever crashes |
| `cluster_join` | 3 nodes, one of which joins and leaves, told one by one; 1 SET, 1 GET, evictions, RPC errors, fairness | `FreshReads`, `JoinHidesNothing`, `RequestCompletes` | with two replicas a join in progress hides no acked key; every request is answered |
| `cluster_skipped` | 2 GETs, RPC errors | `SkippedOnlyBriefly` (violated) | skipping a peer renews its mark |
| `cluster_ttl` | 1 SET with a TTL, 1 GET, eviction | `TTLSurvives` (violated) | a repair can make a value immortal |
| `ring_placement` | 3 nodes, 2 virtual nodes each, circle of 4, all 4096 placements | `RingTypeOK`, `OwnersAreClosest`, `MinimalDisruption` | placement equals its definition, changes are local |
| `ratelimit_buckets` | 3 keys, capacity 2, in grains: rate 0 or 2, burst 3 or 4, cost 4, rounding by up to 1; a millisecond of 1 tick, idle after 2, 4 ticks | `TypeOK`, `OrderMatchesMap`, `OldestFirst`, `NoMintedTokens`, `RetryWithinMs`, `SweepForgetsOnlyFull` | changing limits mints nothing but rounding, the reported wait is right to the millisecond, the victim is the oldest |
| `member_calls` | 3 ids, 3 calls, 1 request at a time | `MemTypeOK`, `MembersAgree`, `UnknownOnlyIfRaced` | only calls about the same id that overlap do harm |
| `limiter_takes` | 2 nodes, 2 addresses, 2 requests, 1 slot, burst 2, cost 2, rate 1, timeout 1, a join, 1 crash, hang-ups, RPC errors, with and without `DryRun` | `TypeOK`, `SlotsHeld`, `AdmittedWithinLimit`, `ChargedOncePerAttempt`, `FailOpenJustified` | retries, late takes and disagreeing coordinators stay within the limits |
| `limiter_timeout` | 1 request, 2 addresses, nobody answers | `TakeWithinTimeout` (violated) | the timeout is one per address, not one per request |

Bounds. The clock stops at `MaxTime`, calls of the store at `MaxCalls`, requests
and administrative calls are a finite set each used once; nothing else is
bounded. Three keys in a store of two is the least that evicts with a choice of
victim; five calls suffice for insert, insert, hit, insert (evicting), read.
Two owners and a third node give a coordinator that owns the key and one that
does not. Two SETs with two stamps and a GET are what it takes for a late older
write, and for a repair of an older value, to meet a newer one. In `cluster_faults`
a millisecond is one tick, so that a repair whose clock moves between its two
readings (`slip`) finds a deadline that has passed; in `cluster_ttl` it is two, so
that half a millisecond of TTL is rounded to nothing. A DELETE beside the SET and
the GET lets a read meet a value that is being removed. A circle of
four with six virtual nodes forces collisions in every placement. In
`ratelimit_buckets` a cost of four lies beyond the smaller burst and is all of the
larger one; a tick, one millisecond, is worth two grains, exactly two roundings, the
least for which `RetryWithinMs` promises a wait, and the idle time just fills the smaller
burst with a rounding against it, but not the larger. In `cluster_join` the walk meets
the joining node first, so that it pushes a former owner out, and every mix of old and
new rings occurs among the three processes; a join told to a process may be taken back
and told again. Its single stamp is why `FreshReads` is also checked in `cluster_writes`. In `limiter_takes` the cost is the whole burst, so that a second charge
needs a refill, a second bucket or a crash; one slot for two requests makes them
race; requests arrive in the first tick (`LastArrival`), and the clock runs until
the last of them can have timed out at every address (`MaxTime`); `MaxCrashes`
bounds the crashes; `Ulp` is 0 there, since rounding is `RateLimit`'s subject, and the
theorems about `Limiter` hold for every `Ulp`. Symmetry is used over keys, over SETs,
over requests and over administrative calls, only in runs without liveness properties
(`RefinesCopies` is a temporal formula, but one without fairness).

Fairness. `Store!Fairness`: the clock runs, and the runtime schedules the
janitor (weak fairness of its steps); the choice of `select` among ready cases is
random, so stopping is strongly fair. Callers need not call. `Cluster!FairSpec`:
the goroutines of a handler run, and `http.Client{Timeout: ReplicaTimeout}` ends
each RPC that nobody answers; nothing is assumed of the owners, the clients or
the clock. `RequestCompletes` therefore rests on the timeout alone: an owner that
hangs forever, as a crashed one does, is included. `Limiter` states no fairness: its
instance is too large for liveness. That a request is not stuck follows in part
from the safety checks: no state without a successor but the ones in which
nobody is asking, and time cannot pass a timer that is due.

## 4. Where the code and its documentation part

Three runs end in a counterexample; `PROJECT.json` quotes the lines.

1. `cluster_skipped` (`node.go:270`): `readOwner` reports a skipped peer as an
   error, and `handleGet` marks every error down, so reads keep pushing the
   breaker's deadline ahead. Under steady GETs a recovered peer stays skipped;
   the README speaks of a 2 s breaker *after a peer error*.
2. `cluster_ttl` (`node.go:421`): less than a millisecond of TTL is sent as
   `ttl_remaining_ms: 0`, read as "no expiry", and repaired onto the other owners
   without one.
3. `limiter_timeout` (`middleware.go:89`): `Client.Take` gives every address a
   `Timeout` of its own. The comment at `middleware.go:146` says that a request is
   allowed when ringcache does not answer within `Client.Timeout`, and the README
   calls it the "fail-open budget"; with three addresses that hang, a request is let
   through after three of them.

More that no run states:

- `store.go:131`: the stamp of a key goes with the key, so a delayed retry does
  bring an old value back after a delete, an eviction or an expiry, where the
  package comment says that an older replica write is ignored (`NewestWins` says
  what holds).
- `node.go:692`: `join` and `leave` update the peer map and the ring under
  different locks; a join and a leave of one id that overlap can leave it on the
  ring without a URL, or with one and off the ring (`MembersAgree` excludes
  exactly these ids).
- `node.go:460`: the result of `store.Set` is dropped, so a stale SET that no owner
  applied is answered 200, where the README says that at least one owner applied
  it.
- `node.go:92`: `New` caps `Replicas` at the initial number of peers, and `join`
  never raises it again.
- A GET served by the owner with the *older* of two values does not make the owners
  converge, because the other owner ignores the repair (`RepairReaches` says what
  does hold).
- `node.go:368`: `time.Duration(ttl_ms) * time.Millisecond` overflows above about
  9.2e12 ms; no validation stops it.
- `bucket.go:84`, `:64`: the reported wait is not exact in `float64`, where the
  comment at `bucket.go:50` says it is the time until `tokens >= cost`. With rate 100,
  burst 29 and cost 29, a caller that drained the bucket is told 290 ms; 290 ms later
  the refill gives 0.29 * 100 = 28.999999999999996, and the caller is denied again.
  `RetryWithinMs` says what holds: one millisecond more is enough.
- `store.go` of the limiter: the sweep forgets a bucket by its idle time alone. Where
  rate * IdleTTL is less than the burst, a key that comes back finds a full bucket
  that it had not yet earned (`SweepForgetsOnlyFull` has this as its premise).
- `middleware.go:212`: `FailOpenTotal` also counts requests whose own client went
  away, which its comment does not list (`FailOpenJustified` admits them).
- `node.go:557`: a client that gives up makes the coordinator mark the primary
  down, although the primary answers; its GETs then skip a healthy peer.

## 5. Proofs

Every safety property that a passing run checks is also a theorem, for every
value of the constants that the named assumptions admit: any number of nodes,
keys, requests, stamps, TTLs, virtual nodes, any capacity and any bound.

| Module | Theorem: property |
| --- | --- |
| `StoreProofs` | `TypeCorrect`: `TypeOK`; `ListMatchesMapCorrect`: `ListMatchesMap`; `CapacityCorrect`: `WithinCapacity`; `RecencyCorrect`: `RecencyOrder`; `EvictsLRUCorrect`: `EvictsLRU`; `NewestWinsCorrect`: `NewestWins`; `SweepCompleteCorrect`: `SweepComplete`; `ExpiresOnlyExpiredCorrect`: `ExpiresOnlyExpired`; `StatsBalanceCorrect`: `StatsBalance` |
| `ClusterProofs` | `TypeCorrect`: `TypeOK`; `LastWriterWins`: `StampsNeverGoBack`; `ProvenanceHolds`: `Provenance`; `SkipsAreEarned`: `SkippedOnlyAfterError`; `ReadsAreFresh`: `FreshReads`; `RepairsReachOwners`: `RepairReaches`; `JoinsHideNothing`: `JoinHidesNothing`; `ImplementsCopies`: `RefinesCopies` |
| `RingProofs` | `RingTypeCorrect`: `RingTypeOK`; `OwnersCorrect`: `OwnersAreClosest`; `DisruptionIsMinimal`: `MinimalDisruption` |
| `MembershipProofs` | `TypeCorrect`: `MemTypeOK`; `MembersCorrect`: `MembersAgree`; `UnknownIsEarned`: `UnknownOnlyIfRaced` |
| `RateLimitProofs` | `TypeCorrect`: `TypeOK`; `SliceMatchesMap`: `OrderMatchesMap`; `VictimIsOldest`: `OldestFirst`; `NothingMinted`: `NoMintedTokens`; `WaitIsRight`: `RetryWithinMs`; `SweepGivesNothingAway`: `SweepForgetsOnlyFull` |
| `LimiterProofs` | `TypeCorrect`: `TypeOK`; `InFlightBounded`: `SlotsHeld`; `FailOpenIsLastResort`: `FailOpenJustified`; `AttemptsChargedOnce`: `ChargedOncePerAttempt`; `LimitIsKept`: `AdmittedWithinLimit` |

`ListFacts` and `BucketFacts` hold the lemmas that several of these need: lists
without duplicates under removal, appending and dropping; the rank of a number in
a finite set, by which `Nth` and `Sublist` are determined; what a refill and a take
do to a bucket.

### Assumptions

All are named, stand beside the constants, and are evaluated by TLC in the runs.

- `Store`: a capacity of at least one (`New` sees to it), integer stamps, natural
  TTLs, finitely many keys.
- `Cluster`: `Walk` lists every node once; a process is a peer of itself and asks
  for at least one replica (`New`); SETs, GETs and DELETEs are different requests;
  `Absent` is none of the values that stand for something.
- `Ring`: identifiers are numbers, since the tie-break of `sort.Slice` compares them
  and all that matters of strings is that their order is total; at least one virtual
  node per node (`New`) and a circle that is not empty.
- `Membership`: finitely many ids, the process among its peers.
- `TokenBucket`, `RateLimit`, `Limiter`: natural rates and bursts, costs of at least
  one (`parseRateLimitBody`), a natural bound `Ulp` on one rounding, a capacity, an idle time, a timeout and an in-flight
  limit of at least one (the defaults of `NewStore` and of the middleware;
  `MaxInFlight = 0` switches the limiter off), an address at least, finitely many
  keys or requests.

### The arguments

None of the properties is inductive alone.

**Store.** `StructInv` joins `TypeOK`, `ListMatchesMap`, the capacity as a bound on
the *list*, and `SweepInList` (the sweep's position lies inside the list). The list
must be free of duplicates for `Elem` to name the element of a key and for
`len(items)` to be the length of the list (`ResidentCardinality`); the sweep's
position must lie inside the list for `SweepElem` to find an item there. On top of
it: `RecencyOrder` needs `LastUseBounded` (no use lies after the last call), so that
what moves to the front is newer than everything else; `SweepComplete` needs
`SweepProgress` (behind the sweep nothing is expired at its tick), which survives
because callers are kept out; `ExpiresOnlyExpired` needs `TicksPast` (no tick lies
ahead of the clock); `StatsBalance`, that every entry ever made is in the list or was
counted as an eviction, an expiration or a delete, is carried for the length of the list, which every
step changes by as much as it changes a counter.

**Cluster.** `Struct` says where requests may be: what a handler has once it has
started (`Handlers`), that the walk stays within its owners (`WalkInOwners`), and
which RPCs a request can have out (`Wires`). From it, lemmas say once and for all
how each part of the state may move: a store takes a genuine body that is not
older, or loses its entry (`StoresMove`); owners and bodies of a request that has
started stay (`RequestsKeep`); a GET goes through one of nine moves (`GetMoves`).
`StampsNeverGoBack` and `Provenance` follow from these. `SkippedOnlyAfterError` is
nearly inductive: `markDown` and the record of its reason, an RPC that failed
(`lastErr`) or a URL that was missing (`nameless`), go together, and a skip marks only
what was marked before; that the clock starts at 1 makes a failure distinct from none. For the reads, `AckInv`
carries what an acknowledgement is worth: an RPC that was served has left that
value or a newer one at the owner unless an entry was lost (`ServedHeld`), an ack
was preceded by the service (`AcksServed`), and what a GET counts as acked before it
was served by all owners of the SET (`BeforeServed`). `GetInv` adds, for each GET, that
the owners it has passed and shares with such a SET were not heard (`PassedUnheard`),
and that an answer is no older than such a SET and no newer than what the owner that
gave it holds (`AnswerFresh`, `FoundServed`). `ReadInv`, their conjunction, gives `FreshReads` and `RepairReaches`.
`JoinHidesNothing` rests on an anchor: among the nodes that stay, the first that the
walk meets is an owner on every ring, with or without the joining node, because
there are two replicas; so the SET and the GET share it (`Anchored`). For
`ImplementsCopies` the four mapped variables are given names (`IssuedView`,
`HeldView`, `PhaseView`, `AnswerView`); `StepOfCopies` lists the changes of them that
are steps of `Copies`, and each action is shown to make one of those or none.

**Ring.** `RingInv`: the ring is sorted by `Before` and holds exactly the virtual
nodes of `nodes` (`Placed`), each as often as it should (`Numbered`: the places of a
rebuilt ring that show a node at a hash and the virtual nodes that fall there are in
bijection). On a sorted list the walk from the found place is
sorted by the gap from the key's hash, so the places where a node is first met are
sorted by `Distance`; the owners are therefore `ClosestFirst`, which is
`OwnersAreClosest`. The length is right because every node is met. For
`MinimalDisruption`, the order by distance of two nodes does not depend on who else
is on the ring, and the position of a node in a list ordered so is its rank: the
ranks of the nodes that stay, among themselves, are the same before and after. Ranks
replace the induction over the list that the provers cannot do.

**Membership.** `MemInv` adds to `RingInv` and the properties: unless calls about its id
have overlapped, a call between its two halves finds the peer map as it left it and
is the only one about to change the ring for that id (`HalfDone`); and every owner that a request has still to contact is known, or
its id was changed since (`Reachable`).

**RateLimit.** `Refilled` (a bucket was last refilled when it was last used) makes the
idle time of the sweep the time since the refill. `Entitled` is stronger than
`NoMintedTokens`: the credit also covers what has come in since the last refill,
which is what makes it survive the clock; each refill adds at most one `Ulp` to both
sides. `Waits` remembers that a refusal was computed, with some rounding, from the
bucket as it still is; `RetryWithinMs` is then arithmetic on `ceilMs` and two
roundings, that of the wait and that of the next refill.

**Limiter.** `BaseInv` says what a request and its attempts may look like at each point
(`LocalInv`, `CallInv`), that counters equal the sets they count (`Counted`), and that
only primaries have buckets (`PlaceInv`). `ChargeInv` is a budget: what a request was
charged, plus one for each attempt that may still be charged or was denied, is at most
one for each attempt that came to nothing, for the one that is waited for and for the
answer that let it through; a late take uses up what was set aside for it. `LimitInv`
counts tokens: the cost of all requests admitted *and of all grants still on the way
to one* is at most what the live buckets have poured out plus a full share for each
one lost in a crash. What a bucket has poured is burst plus refill less what it
holds, so a grant moves tokens from one side of the account to the other.

### Only model-checked

`ExpiredIsSwept`, `CloseTerminates` and `RequestCompletes` are liveness under
fairness, which is beyond TLAPS as it is used here. The three properties that are
violated have nothing to prove. That the models do not deadlock is TLC's.

## 6. Plan

Done: every operation of the system that changes state is an action of some module,
and every safety property of these modules that holds is proved.

What a later pass could add: a bound on `Ulp` from the widths of `float64`; a proof
that the ring of `Cluster`, given as one walk, is an instance of `Ring`'s owners.

Not modelled: `/health`, `/stats` and `/ring` (they only read and format),
`cmd/ringcache` (flags and server lifetime), the load generators, the demo and the
scripts (clients of the endpoints, without state that anything depends on), the
bytes of HTTP and JSON, validation of requests, and FNV-1a.
