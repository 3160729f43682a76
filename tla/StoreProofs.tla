---------------------------- MODULE StoreProofs ----------------------------
(* Theorems about Store, for every set of keys, values, TTLs and stamps,   *)
(* every capacity and every bound.                                         *)
EXTENDS Store, ListFacts, FiniteSetTheorems, SequenceTheorems, TLAPS

----------------------------------------------------------------------------
(* The map and the list. *)

\* A list element the sweep is about to visit exists.
SweepInList == jpc = "sweep" => el <= Len(ll)

\* The part of the inductive invariant about the data structure itself.
StructInv == TypeOK /\ ListMatchesMap /\ Len(ll) <= Capacity /\ SweepInList

\* A key in the map has exactly one list element.
LEMMA ElemProperties ==
    ASSUME TypeOK, ListMatchesMap, NEW k \in Keys, items[k] # Absent
    PROVE  Elem(k) \in 1 .. Len(ll) /\ ll[Elem(k)] = k
<1>1. DOMAIN ll = 1 .. Len(ll)
  BY LenProperties DEF TypeOK
<1>2. \E i \in DOMAIN ll : ll[i] = k
  BY DEF ListMatchesMap, Resident, ToSet
<1> QED
  BY <1>1, <1>2 DEF Elem

\* len(s.items) is the length of the list.
LEMMA ResidentCardinality ==
    ASSUME TypeOK, ListMatchesMap
    PROVE  IsFiniteSet(Resident) /\ Cardinality(Resident) = Len(ll)
BY InjectiveCardinality DEF TypeOK, ListMatchesMap

\* removeElem, as Get, Delete and sweep use it.
LEMMA RemoveElemStep ==
    ASSUME TypeOK, ListMatchesMap, NEW k \in Keys, items[k] # Absent,
           NEW i \in 1 .. Len(ll), ll[i] = k,
           items' = [items EXCEPT ![k] = Absent],
           ll' = RemoveAt(ll, i)
    PROVE  /\ items' \in [Keys -> Item \cup {Absent}]
           /\ ll' \in Seq(Keys)
           /\ Len(ll') = Len(ll) - 1
           /\ ListMatchesMap'
           /\ Resident' = Resident \ {k}
           /\ Embeds(ll', ll)
<1>1. ll \in Seq(Keys) /\ IsInjective(ll) /\ ToSet(ll) = Resident
  BY DEF TypeOK, ListMatchesMap
<1>2. RemoveAt(ll, i) \in Seq(Keys) /\ Len(RemoveAt(ll, i)) = Len(ll) - 1
  BY <1>1, RemoveAtProperties
<1>3. /\ IsInjective(RemoveAt(ll, i)) /\ ToSet(RemoveAt(ll, i)) = ToSet(ll) \ {ll[i]}
      /\ Embeds(RemoveAt(ll, i), ll)
  BY <1>1, RemoveAtKeeps
<1>4. /\ items' \in [Keys -> Item \cup {Absent}]
      /\ Resident' = Resident \ {k}
  BY DEF TypeOK, Resident
<1> QED
  BY <1>1, <1>2, <1>3, <1>4 DEF ListMatchesMap

\* What a hit or an update does to the list.
LEMMA MoveToFrontStep ==
    ASSUME TypeOK, ListMatchesMap, NEW k \in Keys, items[k] # Absent,
           ll' = MoveToFront(ll, Elem(k))
    PROVE  /\ ll' \in Seq(Keys)
           /\ Len(ll') = Len(ll)
           /\ DOMAIN ll' = 1 .. Len(ll)
           /\ ll'[1] = k
           /\ IsInjective(ll')
           /\ ToSet(ll') = ToSet(ll)
           /\ \A a \in 2 .. Len(ll) : ll'[a] # k /\ ll'[a] \in Keys
           /\ \A a, b \in 2 .. Len(ll) : a < b =>
                 \E c, d \in DOMAIN ll : c < d /\ ll'[a] = ll[c] /\ ll'[b] = ll[d]
<1>1. ll \in Seq(Keys) /\ IsInjective(ll) /\ ToSet(ll) = Resident
  BY DEF TypeOK, ListMatchesMap
<1>2. PICK i \in 1 .. Len(ll) : i = Elem(k) /\ ll[i] = k
  BY ElemProperties
<1> DEFINE m == MoveToFront(ll, i)
<1>3. /\ m \in Seq(Keys)
      /\ Len(m) = Len(ll)
      /\ m[1] = ll[i]
      /\ IsInjective(m)
      /\ ToSet(m) = ToSet(ll)
      /\ \A a \in 2 .. Len(ll) : m[a] # ll[i] /\ m[a] \in ToSet(ll)
      /\ \A a, b \in 2 .. Len(ll) : a < b =>
            \E c, d \in DOMAIN ll : c < d /\ m[a] = ll[c] /\ m[b] = ll[d]
  BY <1>1, MoveToFrontKeeps DEF MoveToFront
<1>4. DOMAIN m = 1 .. Len(ll)
  BY <1>3, LenProperties
<1>5. ToSet(ll) \subseteq Keys
  BY <1>1 DEF Resident
<1>6. ll' = m
  BY <1>2
<1> HIDE DEF m
<1>7. \A a \in 2 .. Len(ll) : m[a] # k /\ m[a] \in Keys
  BY <1>2, <1>3, <1>5
<1> QED
  BY ONLY <1>2, <1>3, <1>4, <1>6, <1>7

\* The item that Set builds from its arguments has the type of an item.
LEMMA NewItemType ==
    ASSUME TypeOK, NEW v \in Values, NEW ttl \in TTLs, NEW w \in Stamps
    PROVE  NewItem(v, ttl, w) \in Item /\ NewItem(v, ttl, w) # Absent
<1>1. NewItem(v, ttl, w) \in Item
  BY TTLAssumption DEF TypeOK, NewItem, Item
<1> QED
  BY <1>1, AbsentAssumption

\* The eviction loop ends with room for one key and never asks an empty list
\* for its back.
LEMMA EvictionsProperties ==
    ASSUME StructInv
    PROVE  /\ Evictions \in Nat
           /\ Len(ll) - Evictions \in 0 .. Len(ll)
           /\ Len(ll) - Evictions < Capacity
<1>1. Cardinality(Resident) = Len(ll) /\ Len(ll) \in Nat
  BY ResidentCardinality, LenProperties DEF StructInv, TypeOK
<1> QED
  BY <1>1, CapacityAssumption DEF Evictions, StructInv

\* What inserting a new key does to the map and the list.
LEMMA InsertStep ==
    ASSUME StructInv, NEW k \in Keys, items[k] = Absent,
           NEW v \in Values, NEW ttl \in TTLs, NEW w \in Stamps,
           SetInsert(k, v, ttl, w)
    PROVE  LET keep == Len(ll) - Evictions
           IN  /\ items' \in [Keys -> Item \cup {Absent}]
               /\ ll' \in Seq(Keys)
               /\ Len(ll') = keep + 1
               /\ ListMatchesMap'
               /\ ll'[1] = k
               /\ \A a \in 2 .. keep + 1 : ll'[a] = ll[a - 1] /\ ll'[a] # k
               /\ Resident' \ {k} = ToSet(Kept(keep))
               /\ \A x \in Resident' \ {k} : items'[x] = items[x]
               /\ items'[k] = NewItem(v, ttl, w)
<1> DEFINE keep == Len(ll) - Evictions
           p == SubSeq(ll, 1, keep)
           c == Cons(k, p)
<1>1. keep \in 0 .. Len(ll)
  BY EvictionsProperties
<1> HIDE DEF keep
<1>2. /\ ll \in Seq(Keys) /\ IsInjective(ll) /\ ToSet(ll) = Resident
      /\ k \notin ToSet(ll) /\ items \in [Keys -> Item \cup {Absent}]
  BY DEF StructInv, TypeOK, ListMatchesMap, Resident
<1>3. /\ p \in Seq(Keys) /\ Len(p) = keep
      /\ \A a \in 1 .. keep : p[a] = ll[a]
      /\ ToSet(p) \subseteq ToSet(ll)
      /\ c \in Seq(Keys) /\ Len(c) = keep + 1
      /\ c[1] = k
      /\ \A a \in 2 .. keep + 1 : c[a] = ll[a - 1]
      /\ IsInjective(c)
      /\ ToSet(c) = ToSet(p) \cup {k}
  BY <1>1, <1>2, PushFrontKeeps
<1>4. p = Kept(keep) /\ ll' = c
  BY DEF SetInsert, Kept, keep
<1> HIDE DEF p, c
<1>5. items' = [x \in Keys |-> IF x = k THEN NewItem(v, ttl, w)
                               ELSE IF x \in ToSet(ll) \ ToSet(p) THEN Absent
                               ELSE items[x]]
  BY DEF SetInsert, Kept, keep, p
<1>6. NewItem(v, ttl, w) \in Item /\ NewItem(v, ttl, w) # Absent
  BY NewItemType DEF StructInv
<1>7. /\ items' \in [Keys -> Item \cup {Absent}]
      /\ items'[k] = NewItem(v, ttl, w)
      /\ \A x \in Keys \ {k} : items'[x] = IF x \in ToSet(p) THEN items[x] ELSE Absent
  BY <1>2, <1>3, <1>5, <1>6 DEF Resident
<1>8. Resident' = ToSet(p) \cup {k}
  BY <1>2, <1>3, <1>6, <1>7 DEF Resident
<1>9. \A a \in 2 .. keep + 1 : ll[a - 1] \in ToSet(ll)
  <2>1. DOMAIN ll = 1 .. Len(ll) /\ Len(ll) \in Nat
    BY <1>2, LenProperties
  <2> QED
    BY <1>1, <2>1 DEF ToSet
<1>10. \A x \in Resident' \ {k} : items'[x] = items[x]
  BY <1>7, <1>8 DEF Resident
<1> QED
  BY <1>2, <1>3, <1>4, <1>7, <1>8, <1>9, <1>10 DEF ListMatchesMap, keep

\* A new store is empty: map and list agree, and no sweep is under way.
LEMMA StructInit == Init => StructInv
<1> SUFFICES ASSUME Init PROVE StructInv
  OBVIOUS
<1>1. ll = <<>> /\ ll \in Seq(Keys) /\ Len(ll) = 0 /\ DOMAIN ll = {}
  BY EmptySeq, LenProperties DEF Init
<1>2. TypeOK
  BY <1>1 DEF Init, TypeOK
<1>3. ListMatchesMap
  BY <1>1 DEF Init, ListMatchesMap, IsInjective, ToSet, Resident
<1> QED
  BY <1>1, <1>2, <1>3, CapacityAssumption DEF StructInv, SweepInList, Init

\* The number of counted calls is a number.
LEMMA CallsType == TypeOK => Calls \in Nat
BY DEF TypeOK, Calls, Counters

\* Two different counters can be bumped in one step, as Get does for an
\* expired key.
LEMMA CountersAdd ==
    ASSUME TypeOK, NEW c \in Counters, NEW d \in Counters, c # d,
           NEW m \in Nat, NEW n \in Nat
    PROVE  /\ [stats EXCEPT ![c] = @ + m] \in [Counters -> Nat]
           /\ [stats EXCEPT ![c] = @ + m, ![d] = @ + n] \in [Counters -> Nat]
<1>1. stats \in [Counters -> Nat] /\ stats[c] + m \in Nat /\ stats[d] + n \in Nat
  BY DEF TypeOK
<1> QED
  BY ONLY <1>1, c \in Counters, d \in Counters, c # d

\* Every operation and every step of the janitor keeps the map and the list in
\* agreement, within capacity, and the sweep's position inside the list.
LEMMA StructNext == StructInv /\ [Next]_vars => StructInv'
<1> SUFFICES ASSUME StructInv, [Next]_vars PROVE StructInv'
  OBVIOUS
<1>0. /\ TypeOK /\ ListMatchesMap /\ Len(ll) <= Capacity /\ SweepInList
      /\ Len(ll) \in Nat /\ Calls \in Nat
  BY CallsType, LenProperties DEF StructInv, TypeOK
<1> USE <1>0
<1> SUFFICES TypeOK' /\ ListMatchesMap' /\ Len(ll') <= Capacity /\ SweepInList'
  BY DEF StructInv
<1>1. ASSUME NEW k \in Keys, GetMiss(k)
      PROVE  TypeOK' /\ ListMatchesMap' /\ Len(ll') <= Capacity /\ SweepInList'
  BY <1>1 DEF GetMiss, Count, Counters, TypeOK, ListMatchesMap, Resident, SweepInList,
     janitor, hist
<1>2. ASSUME NEW k \in Keys, GetExpired(k)
      PROVE  TypeOK' /\ ListMatchesMap' /\ Len(ll') <= Capacity /\ SweepInList'
  <2>1. PICK i \in 1 .. Len(ll) : i = Elem(k) /\ ll[i] = k
    BY <1>2, ElemProperties DEF GetExpired
  <2>2. /\ items' = [items EXCEPT ![k] = Absent] /\ ll' = RemoveAt(ll, i)
        /\ items[k] # Absent
    BY <1>2, <2>1 DEF GetExpired
  <2>3. /\ items' \in [Keys -> Item \cup {Absent}] /\ ll' \in Seq(Keys)
        /\ Len(ll') = Len(ll) - 1 /\ ListMatchesMap'
    BY <2>1, <2>2, RemoveElemStep
  <2>s. stats' \in [Counters -> Nat]
    <3>1. stats' = [stats EXCEPT !["expired"] = @ + 1, !["misses"] = @ + 1]
      BY <1>2 DEF GetExpired, Count
    <3> QED
      BY <3>1, CountersAdd DEF Counters
  <2>4. TypeOK'
    BY <1>2, <2>3, <2>s DEF TypeOK, GetExpired, janitor, hist
  <2> QED
    BY <1>2, <2>3, <2>4, CapacityAssumption DEF SweepInList, GetExpired, Callable, janitor
<1>3. ASSUME NEW k \in Keys, GetHit(k)
      PROVE  TypeOK' /\ ListMatchesMap' /\ Len(ll') <= Capacity /\ SweepInList'
  <2>1. items[k] # Absent /\ ll' = MoveToFront(ll, Elem(k))
    BY <1>3 DEF GetHit
  <2>2. ll' \in Seq(Keys) /\ Len(ll') = Len(ll) /\ IsInjective(ll') /\ ToSet(ll') = ToSet(ll)
    BY <2>1, MoveToFrontStep
  <2>3. stats' \in [Counters -> Nat]
    BY <1>3 DEF GetHit, Count, TypeOK, Counters
  <2>4. lastUse' \in [Keys -> Nat]
    <3>1. Calls' \in Nat
      BY <2>3 DEF Calls, Counters
    <3> QED
      BY <1>3, <3>1 DEF GetHit, Touch, TypeOK
  <2>5. TypeOK'
    BY <1>3, <2>2, <2>3, <2>4 DEF TypeOK, GetHit, janitor
  <2> QED
    BY <1>3, <2>2, <2>5 DEF SweepInList, GetHit, Callable, janitor, ListMatchesMap, Resident
<1>4. ASSUME NEW k \in Keys, NEW v \in Values, NEW ttl \in TTLs, NEW w \in Stamps,
             SetStale(k, v, ttl, w)
      PROVE  TypeOK' /\ ListMatchesMap' /\ Len(ll') <= Capacity /\ SweepInList'
  BY <1>4 DEF SetStale, Count, Counters, TypeOK, ListMatchesMap, Resident, SweepInList,
     janitor
<1>5. ASSUME NEW k \in Keys, NEW v \in Values, NEW ttl \in TTLs, NEW w \in Stamps,
             SetUpdate(k, v, ttl, w)
      PROVE  TypeOK' /\ ListMatchesMap' /\ Len(ll') <= Capacity /\ SweepInList'
  <2>1. items[k] # Absent /\ ll' = MoveToFront(ll, Elem(k))
    BY <1>5 DEF SetUpdate
  <2>2. ll' \in Seq(Keys) /\ Len(ll') = Len(ll) /\ IsInjective(ll') /\ ToSet(ll') = ToSet(ll)
    BY <2>1, MoveToFrontStep
  <2>3. stats' \in [Counters -> Nat]
    BY <1>5 DEF SetUpdate, Count, TypeOK, Counters
  <2>4. lastUse' \in [Keys -> Nat]
    <3>1. Calls' \in Nat
      BY <2>3 DEF Calls, Counters
    <3> QED
      BY <1>5, <3>1 DEF SetUpdate, Touch, TypeOK
  <2>6. items' \in [Keys -> Item \cup {Absent}] /\ Resident' = Resident
    <3>1. items' = [items EXCEPT ![k] = NewItem(v, ttl, w)]
      BY <1>5 DEF SetUpdate
    <3> QED
      BY <2>1, <3>1, NewItemType DEF TypeOK, Resident
  <2>7. presented' \in [Keys -> SUBSET (Stamps \X Values)]
    BY <1>5 DEF SetUpdate, TypeOK
  <2>8. TypeOK'
    BY <1>5, <2>2, <2>3, <2>4, <2>6, <2>7 DEF TypeOK, SetUpdate, janitor
  <2> QED
    BY <1>5, <2>2, <2>6, <2>8 DEF SweepInList, SetUpdate, Callable, janitor, ListMatchesMap
<1>6. ASSUME NEW k \in Keys, NEW v \in Values, NEW ttl \in TTLs, NEW w \in Stamps,
             SetInsert(k, v, ttl, w)
      PROVE  TypeOK' /\ ListMatchesMap' /\ Len(ll') <= Capacity /\ SweepInList'
  <2>1. items[k] = Absent
    BY <1>6 DEF SetInsert
  <2>2. /\ items' \in [Keys -> Item \cup {Absent}] /\ ll' \in Seq(Keys)
        /\ Len(ll') = Len(ll) - Evictions + 1 /\ ListMatchesMap'
    BY <1>6, <2>1, InsertStep
  <2>3. /\ Evictions \in Nat /\ Len(ll') <= Capacity
    BY <2>2, EvictionsProperties, CapacityAssumption
  <2>4. stats' \in [Counters -> Nat]
    <3>1. stats' = [stats EXCEPT !["evicts"] = @ + Evictions, !["sets"] = @ + 1]
      BY <1>6 DEF SetInsert
    <3> QED
      BY <2>3, <3>1, CountersAdd DEF Counters
  <2>5. lastUse' \in [Keys -> Nat]
    <3>1. Calls' \in Nat
      BY <2>4 DEF Calls, Counters
    <3> QED
      BY <1>6, <3>1 DEF SetInsert, Touch, TypeOK
  <2>7. presented' \in [Keys -> SUBSET (Stamps \X Values)]
    BY <1>6 DEF SetInsert, TypeOK
  <2>8. TypeOK'
    BY <1>6, <2>2, <2>4, <2>5, <2>7 DEF TypeOK, SetInsert, janitor
  <2> QED
    BY <1>6, <2>2, <2>3, <2>8 DEF SweepInList, SetInsert, Callable, janitor
<1>7. ASSUME NEW k \in Keys, DeleteHit(k)
      PROVE  TypeOK' /\ ListMatchesMap' /\ Len(ll') <= Capacity /\ SweepInList'
  <2>1. PICK i \in 1 .. Len(ll) : i = Elem(k) /\ ll[i] = k
    BY <1>7, ElemProperties DEF DeleteHit
  <2>2. /\ items' = [items EXCEPT ![k] = Absent] /\ ll' = RemoveAt(ll, i)
        /\ items[k] # Absent
    BY <1>7, <2>1 DEF DeleteHit
  <2>3. /\ items' \in [Keys -> Item \cup {Absent}] /\ ll' \in Seq(Keys)
        /\ Len(ll') = Len(ll) - 1 /\ ListMatchesMap'
    BY <2>1, <2>2, RemoveElemStep
  <2>s. stats' \in [Counters -> Nat]
    <3>1. stats' = [stats EXCEPT !["deletes"] = @ + 1]
      BY <1>7 DEF DeleteHit, Count
    <3> QED
      BY <3>1, CountersAdd DEF Counters
  <2>4. TypeOK'
    BY <1>7, <2>3, <2>s DEF TypeOK, DeleteHit, janitor, hist
  <2> QED
    BY <1>7, <2>3, <2>4, CapacityAssumption DEF SweepInList, DeleteHit, Callable, janitor
<1>8. CASE TimePasses
  <2>1. now' \in Nat \ {0} /\ tickC' \in 0 .. now' /\ jnow' \in 0 .. now'
    BY <1>8 DEF TimePasses, TypeOK
  <2>2. TypeOK'
    BY <1>8, <2>1 DEF TimePasses, TypeOK, hist
  <2> QED
    BY <1>8, <2>2 DEF TimePasses, ListMatchesMap, Resident, SweepInList
<1>9. CASE JanitorTick
  BY <1>9 DEF JanitorTick, TypeOK, ListMatchesMap, Resident, SweepInList, hist
<1>10. CASE JanitorStop
  BY <1>10 DEF JanitorStop, TypeOK, ListMatchesMap, Resident, SweepInList, hist
<1>11. CASE SweepLock
  BY <1>11 DEF SweepLock, TypeOK, ListMatchesMap, Resident, SweepInList, hist
<1>12. CASE SweepElem
  <2>1. el \in 1 .. Len(ll) /\ jpc = "sweep" /\ jpc' = "sweep" /\ el' = el - 1
    BY <1>12 DEF SweepElem, SweepInList, TypeOK
  <2>2. CASE expired(items[ll[el]], jnow)
    <3>1. ll[el] \in Keys /\ items[ll[el]] # Absent
      <4>1. ll[el] \in ToSet(ll)
        BY <2>1, LenProperties DEF TypeOK, ToSet
      <4> QED
        BY <4>1 DEF ListMatchesMap, Resident
    <3>2. /\ items' = [items EXCEPT ![ll[el]] = Absent] /\ ll' = RemoveAt(ll, el)
          /\ stats' = Count("expired")
      BY <1>12, <2>2 DEF SweepElem
    <3>3. PICK k \in Keys : k = ll[el]
      BY <3>1
    <3>4. /\ items' \in [Keys -> Item \cup {Absent}] /\ ll' \in Seq(Keys)
          /\ Len(ll') = Len(ll) - 1 /\ ListMatchesMap'
      BY <2>1, <3>1, <3>2, <3>3, RemoveElemStep
    <3>s. stats' \in [Counters -> Nat]
      BY <3>2, CountersAdd DEF Count, Counters
    <3>5. TypeOK'
      BY <1>12, <2>1, <3>4, <3>s DEF TypeOK, SweepElem, hist
    <3> QED
      BY <2>1, <3>4, <3>5, CapacityAssumption DEF SweepInList
  <2>3. CASE ~expired(items[ll[el]], jnow)
    BY <1>12, <2>1, <2>3 DEF SweepElem, TypeOK, ListMatchesMap, Resident, SweepInList, hist
  <2> QED
    BY <2>2, <2>3
<1>13. CASE SweepUnlock
  BY <1>13 DEF SweepUnlock, TypeOK, ListMatchesMap, Resident, SweepInList, hist
<1>14. CASE CloseStop
  BY <1>14 DEF CloseStop, TypeOK, ListMatchesMap, Resident, SweepInList, hist
<1>15. CASE CloseReturn
  BY <1>15 DEF CloseReturn, TypeOK, ListMatchesMap, Resident, SweepInList, hist
<1>16. CASE UNCHANGED vars
  BY <1>16 DEF vars, code, hist, TypeOK, ListMatchesMap, Resident, SweepInList
<1> QED
  BY <1>1, <1>2, <1>3, <1>4, <1>5, <1>6, <1>7, <1>8, <1>9, <1>10, <1>11, <1>12,
     <1>13, <1>14, <1>15, <1>16
  DEF Next, Janitor, Get, Set, Delete, DeleteMiss

\* The data structure is sound in every reachable state.
THEOREM StructCorrect == Spec => []StructInv
BY StructInit, StructNext, PTL DEF Spec

\* Every variable keeps its type; in particular the ticks that the janitor works
\* with are never ahead of the clock.
THEOREM TypeCorrect == Spec => []TypeOK
<1>1. StructInv => TypeOK
  BY DEF StructInv
<1> QED
  BY <1>1, StructCorrect, PTL
----------------------------------------------------------------------------
(* Recency. *)

\* The call that last used a key is not in the future.
LastUseBounded == \A k \in Keys : lastUse[k] <= Calls

\* Every counted call advances Calls, nothing turns it back.
LEMMA CallsStep ==
    ASSUME StructInv, [Next]_vars
    PROVE  /\ Calls' >= Calls
           /\ \A k \in Keys : GetHit(k) => Calls' = Calls + 1
           /\ \A k \in Keys, v \in Values, ttl \in TTLs, w \in Stamps :
                 SetUpdate(k, v, ttl, w) \/ SetInsert(k, v, ttl, w) => Calls' = Calls + 1
<1>0. /\ stats \in [Counters -> Nat]
      /\ \A c \in Counters : stats[c] \in Nat
      /\ DOMAIN stats = Counters
      /\ Evictions \in Nat
  BY EvictionsProperties DEF StructInv, TypeOK
<1>1. ASSUME NEW k \in Keys, GetMiss(k) PROVE Calls' >= Calls
  BY <1>0, <1>1 DEF GetMiss, Count, Calls, Counters
<1>2. ASSUME NEW k \in Keys, GetExpired(k) PROVE Calls' >= Calls
  BY <1>0, <1>2 DEF GetExpired, Calls, Counters
<1>3. ASSUME NEW k \in Keys, GetHit(k) PROVE Calls' = Calls + 1
  BY <1>0, <1>3 DEF GetHit, Count, Calls, Counters
<1>4. ASSUME NEW k \in Keys, NEW v \in Values, NEW ttl \in TTLs, NEW w \in Stamps,
             SetStale(k, v, ttl, w)
      PROVE  Calls' >= Calls
  BY <1>0, <1>4 DEF SetStale, Count, Calls, Counters
<1>5. ASSUME NEW k \in Keys, NEW v \in Values, NEW ttl \in TTLs, NEW w \in Stamps,
             SetUpdate(k, v, ttl, w)
      PROVE  Calls' = Calls + 1
  BY <1>0, <1>5 DEF SetUpdate, Count, Calls, Counters
<1>6. ASSUME NEW k \in Keys, NEW v \in Values, NEW ttl \in TTLs, NEW w \in Stamps,
             SetInsert(k, v, ttl, w)
      PROVE  Calls' = Calls + 1
  <2>1. stats' = [stats EXCEPT !["evicts"] = @ + Evictions, !["sets"] = @ + 1]
    BY <1>6 DEF SetInsert
  <2> QED
    BY <1>0, <2>1 DEF Calls, Counters
<1>7. ASSUME NEW k \in Keys, DeleteHit(k) PROVE Calls' >= Calls
  BY <1>0, <1>7 DEF DeleteHit, Count, Calls, Counters
<1>8. ASSUME SweepElem PROVE Calls' >= Calls
  BY <1>0, <1>8 DEF SweepElem, Count, Calls, Counters
<1>9. ASSUME stats' = stats PROVE Calls' >= Calls
  BY <1>0, <1>9 DEF Calls, Counters
<1>10. \/ \E k \in Keys : GetMiss(k) \/ GetExpired(k) \/ GetHit(k) \/ DeleteHit(k)
       \/ \E k \in Keys, v \in Values, ttl \in TTLs, w \in Stamps :
             SetStale(k, v, ttl, w) \/ SetUpdate(k, v, ttl, w) \/ SetInsert(k, v, ttl, w)
       \/ SweepElem
       \/ stats' = stats
  BY DEF Next, Get, Set, Delete, DeleteMiss, TimePasses, Janitor, JanitorTick, JanitorStop,
     SweepLock, SweepUnlock, CloseStop, CloseReturn, vars, code
<1>11. Calls \in Nat
  BY CallsType DEF StructInv
<1> QED
  BY <1>1, <1>2, <1>3, <1>4, <1>5, <1>6, <1>7, <1>8, <1>9, <1>10, <1>11

\* A new store has no uses to put in order.
LEMMA RecencyInit == Init => LastUseBounded /\ RecencyOrder
<1> SUFFICES ASSUME Init PROVE LastUseBounded /\ RecencyOrder
  OBVIOUS
<1>1. DOMAIN ll = {}
  BY EmptySeq, LenProperties DEF Init
<1>2. LastUseBounded
  BY DEF Init, LastUseBounded, Calls, Counters
<1> QED
  BY <1>1, <1>2 DEF RecencyOrder

\* Steps that use no key: the order of what stays is the order it had.
LEMMA RecencyKept ==
    ASSUME StructInv, LastUseBounded, RecencyOrder,
           lastUse' = lastUse, Calls' >= Calls, Calls' \in Nat,
           Embeds(ll', ll) \/ ll' = ll
    PROVE  LastUseBounded' /\ RecencyOrder'
<1>1. Calls \in Nat /\ \A k \in Keys : lastUse[k] \in Nat
  BY CallsType DEF StructInv, TypeOK
<1>2. LastUseBounded'
  BY <1>1 DEF LastUseBounded
<1>3. RecencyOrder'
  <2>1. CASE ll' = ll
    BY <2>1 DEF RecencyOrder
  <2>2. CASE Embeds(ll', ll)
    BY <2>2 DEF RecencyOrder, Embeds
  <2> QED
    BY <2>1, <2>2
<1> QED
  BY <1>2, <1>3

\* Steps that use key k put it in front of a list that keeps its order.
LEMMA RecencyTouched ==
    ASSUME StructInv, LastUseBounded, RecencyOrder, NEW k \in Keys,
           Touch(k), Calls' = Calls + 1, NEW n \in Nat,
           DOMAIN ll' = 1 .. n,
           ll'[1] = k,
           \A a \in 2 .. n : ll'[a] # k /\ ll'[a] \in Keys,
           \A a, b \in 2 .. n : a < b =>
              \E c, d \in DOMAIN ll : c < d /\ ll'[a] = ll[c] /\ ll'[b] = ll[d]
    PROVE  LastUseBounded' /\ RecencyOrder'
<1>1. Calls \in Nat /\ lastUse \in [Keys -> Nat]
  BY CallsType DEF StructInv, TypeOK
<1>2. /\ lastUse' = [lastUse EXCEPT ![k] = Calls + 1]
      /\ lastUse'[k] = Calls + 1
      /\ \A x \in Keys \ {k} : lastUse'[x] = lastUse[x] /\ lastUse'[x] < Calls + 1
  BY <1>1 DEF Touch, LastUseBounded
<1>3. LastUseBounded'
  <2> SUFFICES ASSUME NEW x \in Keys PROVE lastUse'[x] <= Calls'
    BY DEF LastUseBounded
  <2>1. CASE x = k
    BY <1>1, <1>2, <2>1
  <2>2. CASE x # k
    <3>1. lastUse[x] <= Calls /\ lastUse[x] \in Nat
      BY <1>1 DEF LastUseBounded
    <3> QED
      BY <1>1, <1>2, <2>2, <3>1
  <2> QED
    BY <2>1, <2>2
<1>4. RecencyOrder'
  <2> SUFFICES ASSUME NEW a \in 1 .. n, NEW b \in 1 .. n, a < b
               PROVE  lastUse'[ll'[b]] < lastUse'[ll'[a]]
    BY DEF RecencyOrder
  <2>1. b \in 2 .. n /\ ll'[b] \in Keys \ {k}
    OBVIOUS
  <2>2. CASE a = 1
    BY <1>2, <2>1, <2>2
  <2>3. CASE a # 1
    <3>1. a \in 2 .. n
      BY <2>3
    <3>2. PICK c \in DOMAIN ll, d \in DOMAIN ll :
              c < d /\ ll'[a] = ll[c] /\ ll'[b] = ll[d]
      BY <2>1, <3>1
    <3>3. lastUse[ll[d]] < lastUse[ll[c]]
      BY <3>2 DEF RecencyOrder
    <3> QED
      BY <1>2, <2>1, <3>1, <3>2, <3>3
  <2> QED
    BY <2>2, <2>3
<1> QED
  BY <1>3, <1>4

\* Every step keeps the list sorted by last use.
LEMMA RecencyNext ==
    ASSUME StructInv, StructInv', LastUseBounded, RecencyOrder, [Next]_vars
    PROVE  LastUseBounded' /\ RecencyOrder'
<1>0. /\ TypeOK /\ ListMatchesMap /\ Len(ll) \in Nat
      /\ Calls' \in Nat /\ Calls' >= Calls
  <2>1. Calls' \in Nat
    <3>1. stats' \in [Counters -> Nat]
      BY DEF StructInv, TypeOK
    <3> QED
      BY <3>1 DEF Calls, Counters
  <2> QED
    BY <2>1, CallsStep, LenProperties DEF StructInv, TypeOK
<1>1. ASSUME NEW k \in Keys, GetExpired(k) \/ DeleteHit(k)
      PROVE  LastUseBounded' /\ RecencyOrder'
  <2>1. /\ items[k] # Absent /\ lastUse' = lastUse
        /\ items' = [items EXCEPT ![k] = Absent] /\ ll' = RemoveAt(ll, Elem(k))
    BY <1>1 DEF GetExpired, DeleteHit, hist
  <2>2. PICK i \in 1 .. Len(ll) : i = Elem(k) /\ ll[i] = k
    BY <1>0, <2>1, ElemProperties
  <2>3. Embeds(ll', ll)
    BY <1>0, <2>1, <2>2, RemoveElemStep
  <2> QED
    BY <1>0, <2>1, <2>3, RecencyKept
<1>2. ASSUME SweepElem PROVE LastUseBounded' /\ RecencyOrder'
  <2>1. el \in 1 .. Len(ll) /\ lastUse' = lastUse
    BY <1>0, <1>2 DEF SweepElem, StructInv, SweepInList, TypeOK, hist
  <2>2. CASE expired(items[ll[el]], jnow)
    <3>1. IsInjective(ll) /\ ll \in Seq(Keys) /\ ll' = RemoveAt(ll, el)
      BY <1>0, <1>2, <2>2 DEF SweepElem, ListMatchesMap, TypeOK
    <3>2. Embeds(ll', ll)
      BY <2>1, <3>1, RemoveAtKeeps
    <3> QED
      BY <1>0, <2>1, <3>2, RecencyKept
  <2>3. CASE ~expired(items[ll[el]], jnow)
    <3>1. ll' = ll
      BY <1>2, <2>3 DEF SweepElem
    <3> QED
      BY <1>0, <2>1, <3>1, RecencyKept
  <2> QED
    BY <2>2, <2>3
<1>3. ASSUME NEW k \in Keys,
             \/ GetHit(k)
             \/ \E v \in Values, ttl \in TTLs, w \in Stamps : SetUpdate(k, v, ttl, w)
      PROVE  LastUseBounded' /\ RecencyOrder'
  <2>1. items[k] # Absent /\ ll' = MoveToFront(ll, Elem(k)) /\ Touch(k)
    BY <1>3 DEF GetHit, SetUpdate
  <2>2. Calls' = Calls + 1
    BY <1>3, CallsStep
  <2>3. /\ DOMAIN ll' = 1 .. Len(ll)
        /\ ll'[1] = k
        /\ \A a \in 2 .. Len(ll) : ll'[a] # k /\ ll'[a] \in Keys
        /\ \A a, b \in 2 .. Len(ll) : a < b =>
              \E c, d \in DOMAIN ll : c < d /\ ll'[a] = ll[c] /\ ll'[b] = ll[d]
    BY <1>0, <2>1, MoveToFrontStep
  <2> QED
    BY <1>0, <2>1, <2>2, <2>3, RecencyTouched
<1>4. ASSUME NEW k \in Keys, NEW v \in Values, NEW ttl \in TTLs, NEW w \in Stamps,
             SetInsert(k, v, ttl, w)
      PROVE  LastUseBounded' /\ RecencyOrder'
  <2> DEFINE keep == Len(ll) - Evictions
  <2>1. items[k] = Absent /\ Touch(k)
    BY <1>4 DEF SetInsert
  <2>2. Calls' = Calls + 1
    BY <1>4, CallsStep
  <2>3. keep \in 0 .. Len(ll)
    BY EvictionsProperties
  <2>4. /\ ll' \in Seq(Keys) /\ Len(ll') = keep + 1
        /\ ll'[1] = k
        /\ \A a \in 2 .. keep + 1 : ll'[a] = ll[a - 1] /\ ll'[a] # k
    BY <1>4, <2>1, InsertStep
  <2> HIDE DEF keep
  <2>5. /\ keep + 1 \in Nat /\ DOMAIN ll' = 1 .. keep + 1
        /\ \A a \in 2 .. keep + 1 : ll'[a] \in Keys
    <3>1. DOMAIN ll' = 1 .. keep + 1
      BY <2>4, LenProperties
    <3> QED
      BY <1>0, <2>3, <2>4, <3>1, ElementOfSeq
  <2>6. \A a \in 2 .. keep + 1 : a - 1 \in DOMAIN ll
    <3>1. DOMAIN ll = 1 .. Len(ll)
      BY <1>0, LenProperties DEF TypeOK
    <3> QED
      BY <1>0, <2>3, <3>1
  <2>7. ASSUME NEW a \in 2 .. keep + 1, NEW b \in 2 .. keep + 1, a < b
        PROVE  \E c, d \in DOMAIN ll : c < d /\ ll'[a] = ll[c] /\ ll'[b] = ll[d]
    <3>1. a - 1 < b - 1
      BY <2>7
    <3> QED
      BY <2>4, <2>6, <3>1
  <2>n. PICK n \in Nat : n = keep + 1
    BY <2>5
  <2>8. /\ DOMAIN ll' = 1 .. n /\ ll'[1] = k
        /\ \A a \in 2 .. n : ll'[a] # k /\ ll'[a] \in Keys
        /\ \A a, b \in 2 .. n : a < b =>
              \E c, d \in DOMAIN ll : c < d /\ ll'[a] = ll[c] /\ ll'[b] = ll[d]
    BY <2>4, <2>5, <2>7, <2>n
  <2> QED
    BY <2>1, <2>2, <2>8, RecencyTouched
<1>5. ASSUME ll' = ll, lastUse' = lastUse PROVE LastUseBounded' /\ RecencyOrder'
  BY <1>0, <1>5, RecencyKept
<1>6. \/ \E k \in Keys : GetExpired(k) \/ DeleteHit(k)
      \/ \E k \in Keys : GetHit(k)
      \/ \E k \in Keys, v \in Values, ttl \in TTLs, w \in Stamps :
            SetUpdate(k, v, ttl, w) \/ SetInsert(k, v, ttl, w)
      \/ SweepElem
      \/ ll' = ll /\ lastUse' = lastUse
  BY DEF Next, Get, GetMiss, Set, SetStale, Delete, DeleteMiss, TimePasses, Janitor,
     JanitorTick, JanitorStop, SweepLock, SweepUnlock, CloseStop, CloseReturn, vars, code, hist
<1> QED
  BY <1>1, <1>2, <1>3, <1>4, <1>5, <1>6

\* RecencyOrder holds in every reachable state.
THEOREM RecencyCorrect == Spec => []RecencyOrder
<1>1. Init => StructInv /\ LastUseBounded /\ RecencyOrder
  BY StructInit, RecencyInit
<1>2. (StructInv /\ LastUseBounded /\ RecencyOrder) /\ [Next]_vars
        => (StructInv /\ LastUseBounded /\ RecencyOrder)'
  BY StructNext, RecencyNext
<1> QED
  BY <1>1, <1>2, PTL DEF Spec

\* The map and the list agree in every reachable state.
THEOREM ListMatchesMapCorrect == Spec => []ListMatchesMap
<1>1. StructInv => ListMatchesMap
  BY DEF StructInv
<1> QED
  BY <1>1, StructCorrect, PTL

\* The key count never exceeds the capacity.
THEOREM CapacityCorrect == Spec => []WithinCapacity
<1>1. StructInv => WithinCapacity
  BY ResidentCardinality DEF StructInv, WithinCapacity
<1> QED
  BY <1>1, StructCorrect, PTL

\* The eviction loop removes the least recently used keys.
THEOREM EvictsLRUCorrect == Spec => EvictsLRU
<1> DEFINE Step == stats'["evicts"] > stats["evicts"] =>
                     \A gone \in Resident \ Resident', kept \in Resident \cap Resident' :
                        lastUse[gone] < lastUse[kept]
<1>1. ASSUME StructInv, RecencyOrder, [Next]_vars PROVE [Step]_vars
  <2>0. stats \in [Counters -> Nat]
    BY <1>1 DEF StructInv, TypeOK
  <2>1. ASSUME NEW k \in Keys, NEW v \in Values, NEW ttl \in TTLs, NEW w \in Stamps,
               SetInsert(k, v, ttl, w),
               NEW gone \in Resident \ Resident', NEW kept \in Resident \cap Resident'
        PROVE  lastUse[gone] < lastUse[kept]
    <3> DEFINE keep == Len(ll) - Evictions
    <3>1. items[k] = Absent /\ kept # k
      BY <2>1 DEF SetInsert, Resident
    <3>2. keep \in 0 .. Len(ll)
      BY <1>1, EvictionsProperties
    <3>3. Resident' \ {k} = ToSet(Kept(keep))
      BY <1>1, <2>1, <3>1, InsertStep
    <3> HIDE DEF keep
    <3>4. /\ ll \in Seq(Keys) /\ Len(ll) \in Nat /\ DOMAIN ll = 1 .. Len(ll)
          /\ IsInjective(ll) /\ ToSet(ll) = Resident
      BY <1>1, LenProperties DEF StructInv, TypeOK, ListMatchesMap
    <3>5. DOMAIN Kept(keep) = 1 .. keep /\ \A a \in 1 .. keep : Kept(keep)[a] = ll[a]
      <4>1. \A a \in 1 .. keep : ll[a] \in Keys
        BY <3>2, <3>4, ElementOfSeq
      <4>2. /\ SubSeq(ll, 1, keep) \in Seq(Keys) /\ Len(SubSeq(ll, 1, keep)) = keep
            /\ \A a \in 1 .. keep : SubSeq(ll, 1, keep)[a] = ll[a]
        BY <3>2, <3>4, <4>1, SubSeqProperties
      <4> QED
        BY <4>2, LenProperties DEF Kept
    <3>6. PICK j \in 1 .. keep : kept = ll[j]
      BY <3>1, <3>3, <3>5 DEF ToSet
    <3>7. PICK i \in 1 .. Len(ll) : gone = ll[i]
      BY <3>4 DEF ToSet
    <3>8. gone # k
      BY <3>1 DEF Resident
    <3>9. ~(i <= keep)
      BY <3>3, <3>5, <3>7, <3>8 DEF ToSet
    <3> QED
      BY <1>1, <3>2, <3>4, <3>6, <3>7, <3>9 DEF RecencyOrder
  <2>2. \/ \E k \in Keys, v \in Values, ttl \in TTLs, w \in Stamps : SetInsert(k, v, ttl, w)
        \/ stats'["evicts"] = stats["evicts"]
    BY <1>1, <2>0 DEF Next, Get, GetMiss, GetExpired, GetHit, Set, SetStale, SetUpdate, Delete,
       DeleteMiss, DeleteHit, TimePasses, Janitor, JanitorTick, JanitorStop, SweepLock, SweepElem,
       SweepUnlock, CloseStop, CloseReturn, vars, code, Count, Counters
  <2> QED
    BY <2>0, <2>1, <2>2 DEF Counters
<1>2. Spec => []RecencyOrder /\ []StructInv /\ [][Next]_vars
  BY RecencyCorrect, StructCorrect, PTL DEF Spec
<1> QED
  BY <1>1, <1>2, PTL DEF EvictsLRU
----------------------------------------------------------------------------
(* Last writer wins. *)

\* Steps that only take items away, or leave them alone.
LEMMA NewestKept ==
    ASSUME NewestWins, presented' = presented,
           \A k \in Keys : items'[k] = items[k] \/ items'[k] = Absent
    PROVE  NewestWins'
BY DEF NewestWins, Resident

\* Every step leaves the newest of the offered writes in the map: Set skips an
\* older one and takes any other.
LEMMA NewestNext ==
    ASSUME StructInv, NewestWins, [Next]_vars
    PROVE  NewestWins'
<1>0. /\ items \in [Keys -> Item \cup {Absent}]
      /\ presented \in [Keys -> SUBSET (Stamps \X Values)]
      /\ \A k \in Resident : items[k].writtenAt \in Int
  BY StampsAssumption DEF StructInv, TypeOK, Resident, Item
<1>1. ASSUME NEW k \in Keys, NEW v \in Values, NEW ttl \in TTLs, NEW w \in Stamps,
             SetStale(k, v, ttl, w)
      PROVE  NewestWins'
  <2>1. /\ items' = items /\ Resident' = Resident /\ k \in Resident
        /\ presented' = [presented EXCEPT ![k] = @ \cup {<<w, v>>}]
        /\ items[k].writtenAt > w
    BY <1>1 DEF SetStale, Stale, Resident
  <2> SUFFICES ASSUME NEW x \in Resident
               PROVE  /\ <<items[x].writtenAt, items[x].value>> \in presented'[x]
                      /\ \A p \in presented'[x] : p[1] <= items[x].writtenAt
    BY <2>1 DEF NewestWins
  <2>2. x \in Keys
    BY DEF Resident
  <2>3. CASE x = k
    <3>1. presented'[x] = presented[x] \cup {<<w, v>>}
      BY <1>0, <2>1, <2>2, <2>3
    <3>2. w \in Int /\ w <= items[x].writtenAt
      BY <1>0, <2>1, <2>3, StampsAssumption
    <3> QED
      BY <3>1, <3>2 DEF NewestWins
  <2>4. CASE x # k
    BY <1>0, <2>1, <2>2, <2>4 DEF NewestWins
  <2> QED
    BY <2>3, <2>4
<1>2. ASSUME NEW k \in Keys, NEW v \in Values, NEW ttl \in TTLs, NEW w \in Stamps,
             SetUpdate(k, v, ttl, w)
      PROVE  NewestWins'
  <2>1. /\ items' = [items EXCEPT ![k] = NewItem(v, ttl, w)] /\ k \in Resident
        /\ presented' = [presented EXCEPT ![k] = @ \cup {<<w, v>>}]
        /\ ~(items[k].writtenAt > w)
    BY <1>2 DEF SetUpdate, Stale, Resident
  <2> SUFFICES ASSUME NEW x \in Resident'
               PROVE  /\ <<items'[x].writtenAt, items'[x].value>> \in presented'[x]
                      /\ \A p \in presented'[x] : p[1] <= items'[x].writtenAt
    BY DEF NewestWins
  <2>2. x \in Keys
    BY DEF Resident
  <2>3. CASE x = k
    <3>1. presented'[x] = presented[x] \cup {<<w, v>>}
      BY <1>0, <2>1, <2>2, <2>3
    <3>2. items'[x].writtenAt = w /\ items'[x].value = v /\ w \in Int
      BY <1>0, <2>1, <2>2, <2>3, StampsAssumption DEF NewItem
    <3>3. ASSUME NEW p \in presented[x] PROVE p[1] <= w
      <4>1. p[1] <= items[k].writtenAt /\ items[k].writtenAt \in Int
        BY <1>0, <2>1, <2>3, <3>3 DEF NewestWins
      <4>2. p[1] \in Int
        <5>1. p \in Stamps \X Values
          BY <1>0, <2>2, <3>3
        <5> QED
          BY <5>1, StampsAssumption
      <4> QED
        BY <2>1, <3>2, <4>1, <4>2
    <3> QED
      BY <3>1, <3>2, <3>3
  <2>4. CASE x # k
    <3>1. x \in Resident /\ items'[x] = items[x] /\ presented'[x] = presented[x]
      BY <1>0, <2>1, <2>2, <2>4 DEF Resident
    <3> QED
      BY <3>1 DEF NewestWins
  <2> QED
    BY <2>3, <2>4
<1>3. ASSUME NEW k \in Keys, NEW v \in Values, NEW ttl \in TTLs, NEW w \in Stamps,
             SetInsert(k, v, ttl, w)
      PROVE  NewestWins'
  <2>1. /\ items[k] = Absent /\ presented' = [presented EXCEPT ![k] = {<<w, v>>}]
    BY <1>3 DEF SetInsert
  <2>2. items'[k] = NewItem(v, ttl, w) /\ \A x \in Resident' \ {k} : items'[x] = items[x]
    BY <1>3, <2>1, InsertStep
  <2> SUFFICES ASSUME NEW x \in Resident'
               PROVE  /\ <<items'[x].writtenAt, items'[x].value>> \in presented'[x]
                      /\ \A p \in presented'[x] : p[1] <= items'[x].writtenAt
    BY DEF NewestWins
  <2>3. x \in Keys
    BY DEF Resident
  <2>4. CASE x = k
    <3>1. presented'[x] = {<<w, v>>}
      BY <1>0, <2>1, <2>3, <2>4
    <3>2. items'[x].writtenAt = w /\ items'[x].value = v /\ w \in Int
      BY <2>2, <2>4, StampsAssumption DEF NewItem
    <3> QED
      BY <3>1, <3>2
  <2>5. CASE x # k
    <3>1. x \in Resident /\ items'[x] = items[x] /\ presented'[x] = presented[x]
      BY <1>0, <2>1, <2>2, <2>3, <2>5 DEF Resident
    <3> QED
      BY <3>1 DEF NewestWins
  <2> QED
    BY <2>4, <2>5
<1>4. ASSUME NEW k \in Keys, GetExpired(k) \/ DeleteHit(k) PROVE NewestWins'
  <2>1. items' = [items EXCEPT ![k] = Absent] /\ presented' = presented
    BY <1>4 DEF GetExpired, DeleteHit, hist
  <2> QED
    BY <1>0, <2>1, NewestKept
<1>5. ASSUME SweepElem PROVE NewestWins'
  <2>1. /\ presented' = presented
        /\ items' = items \/ items' = [items EXCEPT ![ll[el]] = Absent]
    BY <1>5 DEF SweepElem, hist
  <2> QED
    BY <1>0, <2>1, NewestKept
<1>6. ASSUME items' = items, presented' = presented PROVE NewestWins'
  BY <1>6, NewestKept
<1>7. \/ \E k \in Keys : GetExpired(k) \/ DeleteHit(k)
      \/ \E k \in Keys, v \in Values, ttl \in TTLs, w \in Stamps :
            SetStale(k, v, ttl, w) \/ SetUpdate(k, v, ttl, w) \/ SetInsert(k, v, ttl, w)
      \/ SweepElem
      \/ items' = items /\ presented' = presented
  BY DEF Next, Get, GetMiss, GetHit, Set, Delete, DeleteMiss, TimePasses, Janitor, JanitorTick,
     JanitorStop, SweepLock, SweepUnlock, CloseStop, CloseReturn, vars, code, hist
<1> QED
  BY <1>1, <1>2, <1>3, <1>4, <1>5, <1>6, <1>7

\* The stored item is the newest of the writes offered since the key came in.
THEOREM NewestWinsCorrect == Spec => []NewestWins
<1>1. Init => NewestWins
  BY DEF Init, NewestWins, Resident
<1>2. StructInv /\ NewestWins /\ [Next]_vars => NewestWins'
  BY NewestNext
<1> QED
  BY <1>1, <1>2, StructCorrect, PTL DEF Spec
----------------------------------------------------------------------------
(* Expiry. *)

\* Behind the sweep's position everything has been dealt with.
SweepProgress ==
    jpc = "sweep" => \A i \in el + 1 .. Len(ll) : ~expired(items[ll[i]], jnow)

\* A buffered tick and the tick being swept for lie in the past.
TicksPast == tickC <= now /\ jnow <= now

\* No sweep is under way in a new store, and no tick lies ahead of the clock.
LEMMA SweepInit == Init => SweepProgress /\ TicksPast
BY DEF Init, SweepProgress, TicksPast

\* A step of the sweep leaves nothing expired behind it, and no caller gets in
\* between; ticks stay in the past.
LEMMA SweepNext ==
    ASSUME StructInv, SweepProgress, TicksPast, [Next]_vars
    PROVE  SweepProgress' /\ TicksPast'
<1>0. /\ TypeOK /\ ListMatchesMap /\ SweepInList
      /\ Len(ll) \in Nat /\ DOMAIN ll = 1 .. Len(ll)
      /\ now \in Nat /\ tickC \in Nat /\ jnow \in Nat /\ el \in Nat
  BY LenProperties DEF StructInv, TypeOK
<1>1. TicksPast'
  <2>1. CASE TimePasses
    BY <1>0, <2>1 DEF TimePasses, TicksPast
  <2>2. CASE JanitorTick
    BY <1>0, <2>2 DEF JanitorTick, TicksPast
  <2>3. CASE UNCHANGED <<now, tickC, jnow>>
    BY <2>3 DEF TicksPast
  <2>4. TimePasses \/ JanitorTick \/ UNCHANGED <<now, tickC, jnow>>
    BY DEF Next, Get, GetMiss, GetExpired, GetHit, Set, SetStale, SetUpdate, SetInsert, Delete,
       DeleteMiss, DeleteHit, Janitor, JanitorStop, SweepLock, SweepElem,
       SweepUnlock, CloseStop, CloseReturn, vars, code, janitor
  <2> QED
    BY <2>1, <2>2, <2>3, <2>4
<1>2. SweepProgress'
  <2>1. CASE SweepElem
    <3>1. /\ el \in 1 .. Len(ll) /\ jpc = "sweep" /\ jpc' = "sweep" /\ el' = el - 1
          /\ jnow' = jnow
      BY <1>0, <2>1 DEF SweepElem, SweepInList
    <3>2. CASE expired(items[ll[el]], jnow)
      <4>1. /\ items' = [items EXCEPT ![ll[el]] = Absent] /\ ll' = RemoveAt(ll, el)
            /\ ll \in Seq(Keys) /\ items \in [Keys -> Item \cup {Absent}]
        BY <1>0, <2>1, <3>2 DEF SweepElem, TypeOK
      <4>2. /\ Len(ll') = Len(ll) - 1
            /\ \A j \in 1 .. Len(ll) - 1 : ll'[j] = IF j < el THEN ll[j] ELSE ll[j + 1]
        BY <3>1, <4>1, RemoveAtProperties
      <4> SUFFICES ASSUME NEW i \in el .. Len(ll) - 1
                   PROVE  ~expired(items'[ll'[i]], jnow)
        BY <1>0, <3>1, <4>2 DEF SweepProgress
      <4>3. i + 1 \in el + 1 .. Len(ll) /\ i + 1 # el /\ i + 1 \in DOMAIN ll /\ el \in DOMAIN ll
        BY <1>0, <3>1
      <4>4. ll'[i] = ll[i + 1]
        BY <1>0, <3>1, <4>2
      <4>5. ll[i + 1] # ll[el]
        BY <1>0, <4>3 DEF ListMatchesMap, IsInjective
      <4>6. items'[ll[i + 1]] = items[ll[i + 1]]
        BY <1>0, <4>1, <4>3, <4>5, ElementOfSeq
      <4> QED
        BY <3>1, <4>3, <4>4, <4>6 DEF SweepProgress
    <3>3. CASE ~expired(items[ll[el]], jnow)
      <4>1. items' = items /\ ll' = ll
        BY <2>1, <3>3 DEF SweepElem
      <4> SUFFICES ASSUME NEW i \in el .. Len(ll) PROVE ~expired(items[ll[i]], jnow)
        BY <1>0, <3>1, <4>1 DEF SweepProgress
      <4>2. i = el \/ i \in el + 1 .. Len(ll)
        BY <1>0
      <4> QED
        BY <3>1, <3>3, <4>2 DEF SweepProgress
    <3> QED
      BY <3>2, <3>3
  <2>2. CASE SweepLock
    BY <1>0, <2>2 DEF SweepLock, SweepProgress
  <2>3. CASE jpc' # "sweep"
    BY <2>3 DEF SweepProgress
  <2>4. CASE UNCHANGED <<items, ll, jpc, jnow, el>>
    BY <2>4 DEF SweepProgress, expired
  <2>5. \/ SweepElem \/ SweepLock \/ jpc' # "sweep"
        \/ UNCHANGED <<items, ll, jpc, jnow, el>>
    BY DEF Next, Get, GetMiss, GetExpired, GetHit, Set, SetStale, SetUpdate, SetInsert, Delete,
       DeleteMiss, DeleteHit, TimePasses, Janitor, JanitorTick, JanitorStop,
       SweepUnlock, CloseStop, CloseReturn, vars, code, janitor, Callable
  <2> QED
    BY <2>1, <2>2, <2>3, <2>4, <2>5
<1> QED
  BY <1>1, <1>2

\* The invariant of the sweep, on top of that of the data structure.
THEOREM SweepInvCorrect == Spec => [](StructInv /\ SweepProgress /\ TicksPast)
<1>1. Init => StructInv /\ SweepProgress /\ TicksPast
  BY StructInit, SweepInit
<1>2. (StructInv /\ SweepProgress /\ TicksPast) /\ [Next]_vars
        => (StructInv /\ SweepProgress /\ TicksPast)'
  BY StructNext, SweepNext
<1> QED
  BY <1>1, <1>2, PTL DEF Spec

\* A finished sweep leaves nothing behind that was expired at its tick.
THEOREM SweepCompleteCorrect == Spec => []SweepComplete
<1>1. ASSUME StructInv, SweepProgress PROVE SweepComplete
  <2> SUFFICES ASSUME jpc = "sweep", el = 0, NEW k \in Resident
               PROVE  items[k].expiresAt \notin 1 .. jnow
    BY DEF SweepComplete
  <2>1. PICK i \in 1 .. Len(ll) : k = ll[i]
    BY <1>1, LenProperties DEF StructInv, TypeOK, ListMatchesMap, ToSet
  <2>2. ~expired(items[k], jnow)
    BY <1>1, <2>1 DEF SweepProgress
  <2>3. items[k].expiresAt \in Nat /\ jnow \in Nat
    BY <1>1 DEF StructInv, TypeOK, Resident, Item
  <2> QED
    BY <2>2, <2>3 DEF expired
<1> QED
  BY <1>1, SweepInvCorrect, PTL

\* Only keys past their deadline are removed as expired.
THEOREM ExpiresOnlyExpiredCorrect == Spec => ExpiresOnlyExpired
<1> DEFINE Step == stats'["expired"] > stats["expired"] =>
                     \A k \in Resident \ Resident' : items[k].expiresAt \in 1 .. now
<1>1. ASSUME StructInv, TicksPast, [Next]_vars PROVE [Step]_vars
  <2>0. /\ stats \in [Counters -> Nat] /\ now \in Nat /\ jnow \in Nat /\ jnow <= now
        /\ items \in [Keys -> Item \cup {Absent}]
        /\ \A k \in Resident : items[k].expiresAt \in Nat
    BY <1>1 DEF StructInv, TypeOK, TicksPast, Resident, Item
  <2>1. ASSUME NEW k \in Keys, GetExpired(k), NEW x \in Resident \ Resident'
        PROVE  items[x].expiresAt \in 1 .. now
    <3>1. x = k /\ expired(items[k], now)
      BY <2>0, <2>1 DEF GetExpired, Resident
    <3> QED
      BY <2>0, <3>1 DEF expired
  <2>2. ASSUME SweepElem, NEW x \in Resident \ Resident'
        PROVE  items[x].expiresAt \in 1 .. now
    <3>1. x = ll[el] /\ expired(items[ll[el]], jnow)
      BY <2>0, <2>2 DEF SweepElem, Resident
    <3> QED
      BY <2>0, <3>1 DEF expired
  <2>3. \/ \E k \in Keys : GetExpired(k)
        \/ SweepElem
        \/ \E k \in Keys, v \in Values, ttl \in TTLs, w \in Stamps : SetInsert(k, v, ttl, w)
        \/ stats'["expired"] = stats["expired"]
    BY <1>1, <2>0 DEF Next, Get, GetMiss, GetHit, Set, SetStale, SetUpdate, Delete,
       DeleteMiss, DeleteHit, TimePasses, Janitor, JanitorTick, JanitorStop, SweepLock,
       SweepUnlock, CloseStop, CloseReturn, vars, code, Count, Counters
  <2>4. ASSUME NEW k \in Keys, NEW v \in Values, NEW ttl \in TTLs, NEW w \in Stamps,
               SetInsert(k, v, ttl, w)
        PROVE  stats'["expired"] = stats["expired"]
    <3>1. stats' = [stats EXCEPT !["evicts"] = @ + Evictions, !["sets"] = @ + 1]
      BY <2>4 DEF SetInsert
    <3> QED
      BY <2>0, <3>1 DEF Counters
  <2> QED
    BY <2>0, <2>1, <2>2, <2>3, <2>4 DEF Counters
<1> QED
  BY <1>1, SweepInvCorrect, PTL DEF Spec, ExpiresOnlyExpired
----------------------------------------------------------------------------
(* The counters. *)

\* StatsBalance with the length of the list for the size of the map.
Balance ==
    /\ Len(ll) + stats["evicts"] + stats["expired"] + stats["deletes"] = inserted
    /\ inserted <= stats["sets"]

\* The sum of a Set that evicts n keys and pushes one: l keys on the list, and
\* the counts e, x, d and s of evictions, expiries, deletes and insertions.
LEMMA InsertBalance ==
    ASSUME NEW l \in Nat, NEW n \in Nat, NEW e \in Nat, NEW x \in Nat,
           NEW d \in Nat, NEW s \in Nat, l + e + x + d = s
    PROVE  (l - n + 1) + (e + n) + x + d = s + 1
OBVIOUS

\* Every step that takes a key off the list bumps one counter for it.
LEMMA BalanceNext ==
    ASSUME StructInv, Balance, [Next]_vars
    PROVE  Balance'
<1>0. /\ TypeOK /\ ListMatchesMap /\ Len(ll) \in Nat
      /\ stats \in [Counters -> Nat] /\ \A c \in Counters : stats[c] \in Nat
  BY LenProperties DEF StructInv, TypeOK
<1>1. ASSUME NEW k \in Keys, GetExpired(k) \/ DeleteHit(k) PROVE Balance'
  <2>0. inserted' = inserted /\ inserted \in Nat
    BY <1>0, <1>1 DEF GetExpired, DeleteHit, hist, TypeOK
  <2>1. /\ items[k] # Absent
        /\ items' = [items EXCEPT ![k] = Absent] /\ ll' = RemoveAt(ll, Elem(k))
    BY <1>1 DEF GetExpired, DeleteHit
  <2>2. PICK i \in 1 .. Len(ll) : i = Elem(k) /\ ll[i] = k
    BY <1>0, <2>1, ElemProperties
  <2>3. Len(ll') = Len(ll) - 1 /\ Len(ll) \in Nat
    BY <1>0, <2>1, <2>2, RemoveElemStep
  <2>4. /\ stats["sets"] \in Nat /\ stats["evicts"] \in Nat
        /\ stats["expired"] \in Nat /\ stats["deletes"] \in Nat
    BY <1>0 DEF Counters
  <2>5. CASE GetExpired(k)
    <3>1. stats' = [stats EXCEPT !["expired"] = @ + 1, !["misses"] = @ + 1]
      BY <2>5 DEF GetExpired
    <3>2. /\ stats'["expired"] = stats["expired"] + 1 /\ stats'["evicts"] = stats["evicts"]
          /\ stats'["deletes"] = stats["deletes"] /\ stats'["sets"] = stats["sets"]
      BY <1>0, <3>1 DEF Counters
    <3> QED
      BY ONLY Balance, <2>0, <2>3, <2>4, <3>2 DEF Balance
  <2>6. CASE DeleteHit(k)
    <3>1. stats' = [stats EXCEPT !["deletes"] = @ + 1]
      BY <2>6 DEF DeleteHit, Count
    <3>2. /\ stats'["deletes"] = stats["deletes"] + 1 /\ stats'["evicts"] = stats["evicts"]
          /\ stats'["expired"] = stats["expired"] /\ stats'["sets"] = stats["sets"]
      BY <1>0, <3>1 DEF Counters
    <3> QED
      BY ONLY Balance, <2>0, <2>3, <2>4, <3>2 DEF Balance
  <2> QED
    BY <1>1, <2>5, <2>6
<1>2. ASSUME SweepElem PROVE Balance'
  <2>0. inserted' = inserted /\ inserted \in Nat
    BY <1>0, <1>2 DEF SweepElem, hist, TypeOK
  <2>1. el \in 1 .. Len(ll)
    BY <1>0, <1>2 DEF SweepElem, StructInv, SweepInList, TypeOK
  <2>2. CASE expired(items[ll[el]], jnow)
    <3>1. Len(ll') = Len(ll) - 1 /\ Len(ll) \in Nat
      BY <1>0, <1>2, <2>1, <2>2, RemoveAtProperties DEF SweepElem, TypeOK
    <3>2. stats' = [stats EXCEPT !["expired"] = @ + 1]
      BY <1>2, <2>2 DEF SweepElem, Count
    <3>3. /\ stats'["expired"] = stats["expired"] + 1 /\ stats'["evicts"] = stats["evicts"]
          /\ stats'["deletes"] = stats["deletes"] /\ stats'["sets"] = stats["sets"]
      BY <1>0, <3>2 DEF Counters
    <3>4. /\ stats["sets"] \in Nat /\ stats["evicts"] \in Nat
          /\ stats["expired"] \in Nat /\ stats["deletes"] \in Nat
      BY <1>0 DEF Counters
    <3>5. Balance' <=>
              /\ (Len(ll) - 1) + stats["evicts"] + (stats["expired"] + 1)
                    + stats["deletes"] = inserted
              /\ inserted <= stats["sets"]
      BY <2>0, <3>1, <3>3 DEF Balance
    <3>6. (Len(ll) - 1) + stats["evicts"] + (stats["expired"] + 1) + stats["deletes"]
              = inserted
      <4>1. PICK l \in Nat : l = Len(ll)
        BY <3>1
      <4>2. PICK e \in Nat : e = stats["evicts"]
        BY <3>4
      <4>3. PICK x \in Nat : x = stats["expired"]
        BY <3>4
      <4>4. PICK d \in Nat : d = stats["deletes"]
        BY <3>4
      <4>5. PICK i \in Nat : i = inserted
        BY <2>0
      <4>6. l + e + x + d = i
        BY <4>1, <4>2, <4>3, <4>4, <4>5 DEF Balance
      <4>7. (l - 1) + e + (x + 1) + d = i
        BY <4>6
      <4> QED
        BY ONLY <4>1, <4>2, <4>3, <4>4, <4>5, <4>7
    <3> QED
      BY <3>5, <3>6 DEF Balance
  <2>3. CASE ~expired(items[ll[el]], jnow)
    BY <1>2, <2>0, <2>3 DEF SweepElem, Balance
  <2> QED
    BY <2>2, <2>3
<1>3. ASSUME NEW k \in Keys, NEW v \in Values, NEW ttl \in TTLs, NEW w \in Stamps,
             SetUpdate(k, v, ttl, w)
      PROVE  Balance'
  <2>1. Len(ll') = Len(ll)
    BY <1>0, <1>3, MoveToFrontStep DEF SetUpdate
  <2> QED
    BY <1>0, <1>3, <2>1 DEF SetUpdate, Balance, Count, Counters
<1>4. ASSUME NEW k \in Keys, GetHit(k) PROVE Balance'
  <2>1. Len(ll') = Len(ll)
    BY <1>0, <1>4, MoveToFrontStep DEF GetHit
  <2> QED
    BY <1>0, <1>4, <2>1 DEF GetHit, Balance, Count, Counters
<1>5. ASSUME NEW k \in Keys, NEW v \in Values, NEW ttl \in TTLs, NEW w \in Stamps,
             SetInsert(k, v, ttl, w)
      PROVE  Balance'
  <2>1. /\ items[k] = Absent
        /\ stats' = [stats EXCEPT !["evicts"] = @ + Evictions, !["sets"] = @ + 1]
    BY <1>5 DEF SetInsert
  <2>2. Len(ll') = Len(ll) - Evictions + 1 /\ Evictions \in Nat
    BY <1>5, <2>1, InsertStep, EvictionsProperties
  <2>3. /\ stats'["evicts"] = stats["evicts"] + Evictions
        /\ stats'["sets"] = stats["sets"] + 1
        /\ stats'["expired"] = stats["expired"] /\ stats'["deletes"] = stats["deletes"]
    BY <1>0, <2>1 DEF Counters
  <2>4. /\ stats["sets"] \in Nat /\ stats["evicts"] \in Nat
        /\ stats["expired"] \in Nat /\ stats["deletes"] \in Nat
    BY <1>0 DEF Counters
  <2>5. PICK n \in Nat : n = Evictions
    BY <2>2
  <2>6. /\ Len(ll') = Len(ll) - n + 1 /\ Len(ll) \in Nat
        /\ stats'["evicts"] = stats["evicts"] + n
    BY <1>0, <2>2, <2>3, <2>5
  <2>7. (Len(ll) - n + 1) + (stats["evicts"] + n) + stats["expired"] + stats["deletes"]
            = inserted + 1
    BY <2>4, <2>6, InsertBalance DEF Balance
  <2>8. inserted' = inserted + 1 /\ inserted \in Nat /\ inserted <= stats["sets"]
    BY <1>0, <1>5 DEF SetInsert, Balance, TypeOK
  <2> QED
    BY ONLY <2>3, <2>4, <2>6, <2>7, <2>8 DEF Balance
<1>6. ASSUME ll' = ll, inserted' = inserted,
             \A c \in {"evicts", "expired", "deletes", "sets"} : stats'[c] = stats[c]
      PROVE  Balance'
  BY <1>6 DEF Balance
<1>7. \/ \E k \in Keys : GetExpired(k) \/ DeleteHit(k) \/ GetHit(k)
      \/ \E k \in Keys, v \in Values, ttl \in TTLs, w \in Stamps :
            SetUpdate(k, v, ttl, w) \/ SetInsert(k, v, ttl, w)
      \/ SweepElem
      \/ /\ ll' = ll /\ inserted' = inserted
         /\ \A c \in {"evicts", "expired", "deletes", "sets"} : stats'[c] = stats[c]
  BY <1>0 DEF Next, Get, GetMiss, Set, SetStale, Delete, DeleteMiss, TimePasses, Janitor,
     JanitorTick, JanitorStop, SweepLock, SweepUnlock, CloseStop, CloseReturn, vars, code, hist,
     Count, Counters
<1> QED
  BY <1>1, <1>2, <1>3, <1>4, <1>5, <1>6, <1>7

\* Every key that left the map was counted once, and nothing else was.
THEOREM StatsBalanceCorrect == Spec => []StatsBalance
<1>1. Init => Balance
  <2> SUFFICES ASSUME Init PROVE Balance
    OBVIOUS
  <2>1. Len(ll) = 0
    BY EmptySeq DEF Init
  <2> QED
    BY <2>1 DEF Init, Balance, Counters
<1>2. StructInv /\ Balance /\ [Next]_vars => Balance'
  BY BalanceNext
<1>3. StructInv /\ Balance => StatsBalance
  BY ResidentCardinality DEF StructInv, Balance, StatsBalance
<1> QED
  BY <1>1, <1>2, <1>3, StructCorrect, PTL DEF Spec
============================================================================
