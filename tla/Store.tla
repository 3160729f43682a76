------------------------------- MODULE Store -------------------------------
(***************************************************************************)
(* The process-local cache of internal/store/store.go: a map (items) and a *)
(* recency list (ll, front = most recently used) kept in step under one    *)
(* mutex, with a key-count capacity, lazy and periodic expiry, and         *)
(* last-writer-wins on WrittenAt.                                          *)
(*                                                                         *)
(* Get, Set and Delete hold the mutex from entry to return and never       *)
(* block inside, so each is one step.  The janitor's sweep is modelled     *)
(* iteration by iteration, because it removes list elements while it walks *)
(* the list; the mutex it holds meanwhile is the program counter "sweep".  *)
(* The ticker of the janitor is a channel of capacity one: the time it     *)
(* delivers may be older than the time at which the sweep runs.            *)
(*                                                                         *)
(* Time is a count of ticks; the zero time.Time ("no TTL") is 0, and the   *)
(* clock starts at 1.                                                      *)
(***************************************************************************)
EXTENDS Integers, FiniteSets, SequencesExt

CONSTANTS
    Keys,         \* keys a caller may use
    Values,       \* values a caller may store
    TTLs,         \* ttl arguments of Set, in ticks; 0 means no expiration
    Stamps,       \* writtenAt arguments of Set (coordinator unix-nano)
    Capacity,     \* max key count
    SweepPeriod,  \* ticks between two ticks of the janitor's ticker
    MaxTime,      \* bound: the clock stops advancing here
    MaxCalls,     \* bound: number of counted calls of Get, Set and Delete
    Absent        \* the item of a key that is not in the map

ASSUME CapacityAssumption == Capacity \in Nat \ {0}
ASSUME StampsAssumption == Stamps \subseteq Int
ASSUME TTLAssumption == TTLs \subseteq Nat
ASSUME KeysAssumption == IsFiniteSet(Keys)
ASSUME TimeAssumption == /\ SweepPeriod \in Nat \ {0}
                         /\ MaxTime \in Nat \ {0}
                         /\ MaxCalls \in Nat

Item == [value: Values, expiresAt: Nat, writtenAt: Stamps]

ASSUME AbsentAssumption == Absent \notin Item

VARIABLES
    items,      \* items[k] is the stored item, or Absent
    ll,         \* keys, most recently used first
    stats,      \* the counters that Stats() reports
    now,        \* time.Now()
    tickC,      \* the ticker's channel: a buffered tick, or 0
    jpc,        \* janitor: "select", "lock", "sweep" (mutex held), "returned"
    jnow,       \* janitor: the tick it is sweeping for
    el,         \* janitor: position in ll of the element to visit, 0 = nil
    closer,     \* Close(): "open", "closing" (stop is closed), "closed"
    (* History variables, read by no action. *)
    lastUse,    \* call number of the last hit or applied write of a key
    presented,  \* writes offered for a key since it was last inserted
    inserted    \* how often Set has put a key in that was not there

code == <<items, ll, stats, now, tickC, jpc, jnow, el, closer>>
hist == <<lastUse, presented, inserted>>
janitor == <<tickC, jpc, jnow, el, closer>>
vars == <<code, hist>>

Counters == {"hits", "misses", "sets", "deletes", "evicts", "expired", "skipped"}

Resident == {k \in Keys : items[k] # Absent}

\* How many calls have been counted; every call that changes the state is.
Calls == stats["hits"] + stats["misses"] + stats["sets"]
           + stats["deletes"] + stats["skipped"]

TypeOK ==
    /\ items \in [Keys -> Item \cup {Absent}]
    /\ ll \in Seq(Keys)
    /\ stats \in [Counters -> Nat]
    /\ now \in Nat \ {0}
    /\ tickC \in 0 .. now
    /\ jpc \in {"select", "lock", "sweep", "returned"}
    /\ jnow \in 0 .. now
    /\ el \in Nat
    /\ closer \in {"open", "closing", "closed"}
    /\ lastUse \in [Keys -> Nat]
    /\ presented \in [Keys -> SUBSET (Stamps \X Values)]
    /\ inserted \in Nat

Init ==
    /\ items = [k \in Keys |-> Absent]
    /\ ll = <<>>
    /\ stats = [c \in Counters |-> 0]
    /\ now = 1
    /\ tickC = 0
    /\ jpc = "select"
    /\ jnow = 0
    /\ el = 0
    /\ closer = "open"
    /\ lastUse = [k \in Keys |-> 0]
    /\ presented = [k \in Keys |-> {}]
    /\ inserted = 0
----------------------------------------------------------------------------
(* Helpers. *)

expiredZeroForgotten(it, t) == t >= it.expiresAt

expiredOffByOne(it, t) == it.expiresAt # 0 /\ t > it.expiresAt

expired(it, t) == it.expiresAt # 0 /\ t >= it.expiresAt

\* The list element of a key in the map.
Elem(k) == CHOOSE i \in DOMAIN ll : ll[i] = k

MoveToFrontForgotten(s, i) == s

MoveToFront(s, i) == Cons(s[i], RemoveAt(s, i))

\* it.writtenAt > writtenAt: the write is older than what is stored.
NeverStale(it, writtenAt) == FALSE

Stale(it, writtenAt) == it.writtenAt > writtenAt

\* Evicts from the wrong end: what stays is the back of the list.
KeptBack(keep) == SubSeq(ll, Len(ll) - keep + 1, Len(ll))

\* What evictLRU leaves of the list when keep elements stay.
Kept(keep) == SubSeq(ll, 1, keep)

\* How many elements "for len(s.items) >= s.capacity { s.evictLRU() }" takes
\* off the back of the list.
EvictionsOffByOne ==
    LET over == Cardinality(Resident) - Capacity
    IN  IF over > 0 THEN over ELSE 0

Evictions ==
    LET over == Cardinality(Resident) - Capacity + 1
    IN  IF over > 0 THEN over ELSE 0

Count(c) == [stats EXCEPT ![c] = @ + 1]

\* The caller can take the mutex and the bound on calls is not reached.
Callable == jpc # "sweep" /\ Calls < MaxCalls

Touch(k) == lastUse' = [lastUse EXCEPT ![k] = Calls']
----------------------------------------------------------------------------
(* Get *)

GetMiss(k) ==
    /\ Callable
    /\ items[k] = Absent
    /\ stats' = Count("misses")
    /\ UNCHANGED <<items, ll, now, janitor, hist>>

GetExpiredUncounted(k) ==
    /\ Callable
    /\ items[k] # Absent
    /\ expired(items[k], now)
    /\ items' = [items EXCEPT ![k] = Absent]
    /\ ll' = RemoveAt(ll, Elem(k))
    /\ stats' = Count("misses")
    /\ UNCHANGED <<now, janitor, hist>>

GetExpiredKeepsElem(k) ==
    /\ Callable
    /\ items[k] # Absent
    /\ expired(items[k], now)
    /\ items' = [items EXCEPT ![k] = Absent]
    /\ stats' = [stats EXCEPT !["expired"] = @ + 1, !["misses"] = @ + 1]
    /\ UNCHANGED <<ll, now, janitor, hist>>

GetExpired(k) ==
    /\ Callable
    /\ items[k] # Absent
    /\ expired(items[k], now)
    /\ items' = [items EXCEPT ![k] = Absent]
    /\ ll' = RemoveAt(ll, Elem(k))
    /\ stats' = [stats EXCEPT !["expired"] = @ + 1, !["misses"] = @ + 1]
    /\ UNCHANGED <<now, janitor, hist>>

GetHit(k) ==
    /\ Callable
    /\ items[k] # Absent
    /\ ~expired(items[k], now)
    /\ ll' = MoveToFront(ll, Elem(k))
    /\ stats' = Count("hits")
    /\ Touch(k)
    /\ UNCHANGED <<items, now, janitor, presented, inserted>>

Get(k) == GetMiss(k) \/ GetExpired(k) \/ GetHit(k)
----------------------------------------------------------------------------
(* Set *)

NewItem(v, ttl, w) ==
    [value |-> v, expiresAt |-> IF ttl > 0 THEN now + ttl ELSE 0, writtenAt |-> w]

SetStale(k, v, ttl, w) ==
    /\ Callable
    /\ items[k] # Absent
    /\ Stale(items[k], w)
    /\ stats' = Count("skipped")
    /\ presented' = [presented EXCEPT ![k] = @ \cup {<<w, v>>}]
    /\ UNCHANGED <<items, ll, now, janitor, lastUse, inserted>>

SetUpdate(k, v, ttl, w) ==
    /\ Callable
    /\ items[k] # Absent
    /\ ~Stale(items[k], w)
    /\ items' = [items EXCEPT ![k] = NewItem(v, ttl, w)]
    /\ ll' = MoveToFront(ll, Elem(k))
    /\ stats' = Count("sets")
    /\ presented' = [presented EXCEPT ![k] = @ \cup {<<w, v>>}]
    /\ Touch(k)
    /\ UNCHANGED <<now, janitor, inserted>>

SetInsert(k, v, ttl, w) ==
    /\ Callable
    /\ items[k] = Absent
    /\ LET n    == Evictions
           keep == Len(ll) - n
           out  == ToSet(ll) \ ToSet(Kept(keep))
       IN  /\ items' = [x \in Keys |-> IF x = k THEN NewItem(v, ttl, w)
                                       ELSE IF x \in out THEN Absent
                                       ELSE items[x]]
           /\ ll' = Cons(k, Kept(keep))
           /\ stats' = [stats EXCEPT !["evicts"] = @ + n, !["sets"] = @ + 1]
    /\ presented' = [presented EXCEPT ![k] = {<<w, v>>}]
    /\ inserted' = inserted + 1
    /\ Touch(k)
    /\ UNCHANGED <<now, janitor>>

Set(k, v, ttl, w) ==
    \/ SetStale(k, v, ttl, w)
    \/ SetUpdate(k, v, ttl, w)
    \/ SetInsert(k, v, ttl, w)
----------------------------------------------------------------------------
(* Delete: an expired key still counts as present. *)

DeleteMiss(k) ==
    /\ jpc # "sweep"
    /\ items[k] = Absent
    /\ UNCHANGED vars

DeleteHit(k) ==
    /\ Callable
    /\ items[k] # Absent
    /\ items' = [items EXCEPT ![k] = Absent]
    /\ ll' = RemoveAt(ll, Elem(k))
    /\ stats' = Count("deletes")
    /\ UNCHANGED <<now, janitor, hist>>

Delete(k) == DeleteMiss(k) \/ DeleteHit(k)
----------------------------------------------------------------------------
(* The clock and the ticker: a tick that finds the channel full is dropped. *)

TimePasses ==
    /\ now' = IF now < MaxTime THEN now + 1 ELSE now
    /\ tickC' = IF tickC = 0 /\ now' % SweepPeriod = 0 THEN now' ELSE tickC
    /\ UNCHANGED <<items, ll, stats, jpc, jnow, el, closer, hist>>

(* The janitor goroutine. *)

\* The deadline of the next tick instead of the time of this one.
JanitorTickNext ==
    /\ jpc = "select" /\ tickC # 0
    /\ jpc' = "lock"
    /\ jnow' = tickC + SweepPeriod
    /\ tickC' = 0
    /\ UNCHANGED <<items, ll, stats, now, el, closer, hist>>

JanitorTick ==
    /\ jpc = "select" /\ tickC # 0
    /\ jpc' = "lock"
    /\ jnow' = tickC
    /\ tickC' = 0
    /\ UNCHANGED <<items, ll, stats, now, el, closer, hist>>

\* stopped is never closed.
JanitorStopUnsignalled ==
    /\ jpc = "select" /\ closer = "closing"
    /\ jpc' = "lost"
    /\ UNCHANGED <<items, ll, stats, now, tickC, jnow, el, closer, hist>>

JanitorStop ==
    /\ jpc = "select" /\ closer = "closing"
    /\ jpc' = "returned"
    /\ UNCHANGED <<items, ll, stats, now, tickC, jnow, el, closer, hist>>

SweepLock ==
    /\ jpc = "lock"
    /\ jpc' = "sweep"
    /\ el' = Len(ll)
    /\ UNCHANGED <<items, ll, stats, now, tickC, jnow, closer, hist>>

\* What the loop would do if it asked the removed element for its
\* predecessor: a removed element has none, and the walk ends there.
SweepElemPrevAfterRemove ==
    /\ jpc = "sweep" /\ el # 0
    /\ IF expired(items[ll[el]], jnow)
       THEN /\ items' = [items EXCEPT ![ll[el]] = Absent]
            /\ ll' = RemoveAt(ll, el)
            /\ stats' = Count("expired")
            /\ el' = 0
       ELSE UNCHANGED <<items, ll, stats>> /\ el' = el - 1
    /\ UNCHANGED <<now, tickC, jpc, jnow, closer, hist>>

\* prev := el.Prev() is read before the element is removed.
SweepElem ==
    /\ jpc = "sweep" /\ el # 0
    /\ el' = el - 1
    /\ IF expired(items[ll[el]], jnow)
       THEN /\ items' = [items EXCEPT ![ll[el]] = Absent]
            /\ ll' = RemoveAt(ll, el)
            /\ stats' = Count("expired")
       ELSE UNCHANGED <<items, ll, stats>>
    /\ UNCHANGED <<now, tickC, jpc, jnow, closer, hist>>

SweepUnlock ==
    /\ jpc = "sweep" /\ el = 0
    /\ jpc' = "select"
    /\ UNCHANGED <<items, ll, stats, now, tickC, jnow, el, closer, hist>>

(* Close: closeOnce makes every later call a no-op. *)

CloseStop ==
    /\ closer = "open"
    /\ closer' = "closing"
    /\ UNCHANGED <<items, ll, stats, now, tickC, jpc, jnow, el, hist>>

CloseReturn ==
    /\ closer = "closing" /\ jpc = "returned"
    /\ closer' = "closed"
    /\ UNCHANGED <<items, ll, stats, now, tickC, jpc, jnow, el, hist>>
----------------------------------------------------------------------------
Janitor == JanitorTick \/ JanitorStop \/ SweepLock \/ SweepElem \/ SweepUnlock

Next ==
    \/ \E k \in Keys : Get(k) \/ Delete(k)
    \/ \E k \in Keys, v \in Values, ttl \in TTLs, w \in Stamps : Set(k, v, ttl, w)
    \/ TimePasses
    \/ Janitor
    \/ CloseStop
    \/ CloseReturn

\* The runtime schedules the janitor and the clock runs; select picks among
\* ready cases at random, so a closed stop channel is not passed over forever.
\* Callers may stop calling at any time.
Fairness ==
    /\ WF_vars(TimePasses)
    /\ WF_vars(JanitorTick)
    /\ WF_vars(SweepLock)
    /\ WF_vars(SweepElem)
    /\ WF_vars(SweepUnlock)
    /\ SF_vars(JanitorStop)
    /\ WF_vars(CloseReturn)

Spec == Init /\ [][Next]_vars

FairSpec == Spec /\ Fairness
----------------------------------------------------------------------------
(* Properties. *)

\* The map and the list hold the same keys, each key once.  removeElem has to
\* touch both: if they part, evictLRU finds an empty list while the map is
\* full and Set's eviction loop never ends.
ListMatchesMap == IsInjective(ll) /\ ToSet(ll) = Resident

\* The map never holds more than capacity keys, expired ones included.
WithinCapacity == Cardinality(Resident) <= Capacity

\* The list is sorted by last use: MoveToFront and PushFront on every hit and
\* every applied write, and no removal, keep it so.
RecencyOrder == \A i, j \in DOMAIN ll : i < j => lastUse[ll[j]] < lastUse[ll[i]]

\* LRU: a key pushed out by evictLRU was last used before every key that
\* stays, whatever hits, updates, deletes and sweeps came in between.
EvictsLRU ==
    [][stats'["evicts"] > stats["evicts"] =>
         \A gone \in Resident \ Resident', kept \in Resident \cap Resident' :
            lastUse[gone] < lastUse[kept]]_vars

\* Last writer wins: the item of a key is one of the writes Set was called
\* with since the key was inserted, and none of those is newer.
NewestWins ==
    \A k \in Resident :
        /\ <<items[k].writtenAt, items[k].value>> \in presented[k]
        /\ \A p \in presented[k] : p[1] <= items[k].writtenAt

\* The counters of Stats() account for every key that ever left the map: what
\* was put in is still there or was counted, once, as evicted, expired or
\* deleted, and every key that was put in was counted as a set.
StatsBalance ==
    /\ Cardinality(Resident) + stats["evicts"] + stats["expired"] + stats["deletes"] = inserted
    /\ inserted <= stats["sets"]

\* When sweep's walk reaches the front of the list it has visited every
\* element, the removals on the way included: nothing that was expired at the
\* tick is left.
SweepComplete ==
    jpc = "sweep" /\ el = 0 =>
        \A k \in Resident : items[k].expiresAt \notin 1 .. jnow

\* A removal counted as an expiry takes only keys whose deadline has passed,
\* even when the sweep works from a tick delivered long ago or a key was
\* refreshed after the tick.
ExpiresOnlyExpired ==
    [][stats'["expired"] > stats["expired"] =>
         \A k \in Resident \ Resident' : items[k].expiresAt \in 1 .. now]_vars

\* An item with a deadline does not stay forever, even if nobody asks for its
\* key: it is swept, read, overwritten, deleted or evicted, unless the store
\* is closed first.
ExpiredIsSwept ==
    \A k \in Keys, t \in 1 .. MaxTime :
        (items[k] # Absent /\ items[k].expiresAt = t)
            ~> (items[k] = Absent \/ items[k].expiresAt # t \/ closer # "open")

\* Close returns: the janitor notices the stop channel even while ticks keep
\* arriving, and callers holding the mutex do not keep it away.
CloseTerminates == closer = "closing" ~> closer = "closed"
============================================================================
