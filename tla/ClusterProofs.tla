--------------------------- MODULE ClusterProofs ---------------------------
(* Theorems about Cluster, for every set of nodes, rings, requests, stamps, *)
(* TTLs and membership changes, every combination of faults and every bound *)
(* on the clock.                                                            *)
EXTENDS Cluster, ListFacts, FiniteSetTheorems, SequenceTheorems, TLAPS

----------------------------------------------------------------------------
(* The owners of a key. *)

\* The walk meets every node once, so it puts the nodes in a total order.
LEMMA WalkOrder ==
    /\ IsFiniteSet(Nodes)
    /\ \A x \in Nodes : ~MetBefore(x, x)
    /\ \A x, y \in Nodes : x # y => MetBefore(x, y) \/ MetBefore(y, x)
    /\ \A x, y, z \in Nodes : MetBefore(x, y) /\ MetBefore(y, z) => MetBefore(x, z)
<1>0. /\ Walk \in Seq(Nodes) /\ IsInjective(Walk)
      /\ DOMAIN Walk = 1 .. Len(Walk) /\ Len(Walk) \in Nat
  BY WalkAssumption, LenProperties
<1>1. IsFiniteSet(Nodes)
  BY WalkAssumption, InjectiveCardinality
<1>2. \A x \in Nodes : ~MetBefore(x, x)
  BY <1>0 DEF MetBefore, IsInjective
<1>3. \A x, y \in Nodes : x # y => MetBefore(x, y) \/ MetBefore(y, x)
  <2> SUFFICES ASSUME NEW x \in Nodes, NEW y \in Nodes, x # y
               PROVE  MetBefore(x, y) \/ MetBefore(y, x)
    OBVIOUS
  <2>1. PICK i \in DOMAIN Walk : Walk[i] = x
    BY WalkAssumption DEF ToSet
  <2>2. PICK j \in DOMAIN Walk : Walk[j] = y
    BY WalkAssumption DEF ToSet
  <2>3. i < j \/ j < i
    BY <1>0, <2>1, <2>2
  <2> QED
    BY <2>1, <2>2, <2>3 DEF MetBefore
<1>4. \A x, y, z \in Nodes : MetBefore(x, y) /\ MetBefore(y, z) => MetBefore(x, z)
  <2> SUFFICES ASSUME NEW x \in Nodes, NEW y \in Nodes, NEW z \in Nodes,
                      MetBefore(x, y), MetBefore(y, z)
               PROVE  MetBefore(x, z)
    OBVIOUS
  <2>1. PICK i \in DOMAIN Walk, j \in DOMAIN Walk : i < j /\ Walk[i] = x /\ Walk[j] = y
    BY DEF MetBefore
  <2>2. PICK k \in DOMAIN Walk, l \in DOMAIN Walk : k < l /\ Walk[k] = y /\ Walk[l] = z
    BY DEF MetBefore
  <2>3. j = k
    BY <1>0, <2>1, <2>2 DEF IsInjective
  <2>4. i < l
    BY <1>0, <2>1, <2>2, <2>3
  <2> QED
    BY <2>1, <2>2, <2>4 DEF MetBefore
<1> QED
  BY <1>1, <1>2, <1>3, <1>4

\* How many nodes of S the walk meets before m.
MetAhead(S, m) == Cardinality({x \in S : MetBefore(x, m)})

\* The nodes of S in the order of the walk: every node has one place.
LEMMA MetProperties ==
    ASSUME NEW S \in SUBSET Nodes
    PROVE  /\ IsFiniteSet(S) /\ Cardinality(S) \in Nat
           /\ \A i \in 1 .. Cardinality(S) : Met(S, i) \in S
           /\ \A i, j \in 1 .. Cardinality(S) : Met(S, i) = Met(S, j) => i = j
           /\ \A m \in S : /\ MetAhead(S, m) \in 0 .. Cardinality(S) - 1
                           /\ Met(S, MetAhead(S, m) + 1) = m
<1> DEFINE R == {p \in S \X S : MetBefore(p[1], p[2])}
<1>0. IsFiniteSet(S) /\ Cardinality(S) \in Nat
  BY WalkOrder, FS_Subset, FS_CardinalityType
<1>1. ASSUME NEW x \in S, NEW y \in S PROVE <<x, y>> \in R <=> MetBefore(x, y)
  OBVIOUS
<1> HIDE DEF R
<1>2. Orders(R, S)
  BY <1>1, WalkOrder DEF Orders
<1>3. \A m \in S : Rank(S, R, m) = MetAhead(S, m)
  <2> SUFFICES ASSUME NEW m \in S PROVE Rank(S, R, m) = MetAhead(S, m)
    OBVIOUS
  <2>1. {x \in S : <<x, m>> \in R} = {x \in S : MetBefore(x, m)}
    BY <1>1
  <2> QED
    BY <2>1 DEF Rank, MetAhead
<1>4. /\ \A m \in S : Rank(S, R, m) \in 0 .. Cardinality(S) - 1
      /\ \A m, n \in S : Rank(S, R, m) = Rank(S, R, n) => m = n
      /\ \A i \in 0 .. Cardinality(S) - 1 : \E m \in S : Rank(S, R, m) = i
  BY <1>0, <1>2, RankProperties
<1>5. /\ \A m \in S : MetAhead(S, m) \in 0 .. Cardinality(S) - 1
      /\ \A m, n \in S : MetAhead(S, m) = MetAhead(S, n) => m = n
      /\ \A i \in 0 .. Cardinality(S) - 1 : \E m \in S : MetAhead(S, m) = i
  BY <1>3, <1>4
<1>6. \A i : Met(S, i) = CHOOSE m \in S : MetAhead(S, m) = i - 1
  BY DEF Met, MetAhead
<1> HIDE DEF MetAhead
<1>7. ASSUME NEW i \in 1 .. Cardinality(S)
      PROVE  Met(S, i) \in S /\ MetAhead(S, Met(S, i)) = i - 1
  <2>1. i - 1 \in 0 .. Cardinality(S) - 1
    BY <1>0
  <2>2. \E m \in S : MetAhead(S, m) = i - 1
    BY <1>5, <2>1
  <2> QED
    BY <1>6, <2>2
<1>8. ASSUME NEW i \in 1 .. Cardinality(S), NEW j \in 1 .. Cardinality(S), Met(S, i) = Met(S, j)
      PROVE  i = j
  BY <1>0, <1>7, <1>8
<1>9. ASSUME NEW m \in S
      PROVE  MetAhead(S, m) \in 0 .. Cardinality(S) - 1 /\ Met(S, MetAhead(S, m) + 1) = m
  <2>1. MetAhead(S, m) \in 0 .. Cardinality(S) - 1
    BY <1>5
  <2>2. /\ MetAhead(S, m) + 1 \in 1 .. Cardinality(S)
        /\ (MetAhead(S, m) + 1) - 1 = MetAhead(S, m)
    BY <1>0, <2>1
  <2>3. /\ Met(S, MetAhead(S, m) + 1) \in S
        /\ MetAhead(S, Met(S, MetAhead(S, m) + 1)) = MetAhead(S, m)
    BY <1>7, <2>2
  <2> QED
    BY <1>5, <2>1, <2>3
<1> QED
  BY <1>0, <1>7, <1>8, <1>9

\* New's cap on the replication factor.
LEMMA ReplicasType ==
    ASSUME NEW n \in Nodes
    PROVE  /\ Replicas(n) \in Nat \ {0}
           /\ IsFiniteSet(Peers[n]) /\ Cardinality(Peers[n]) \in Nat
           /\ Replicas(n) <= Cardinality(Peers[n])
<1>1. Peers[n] \in SUBSET Nodes /\ n \in Peers[n] /\ ReplicasFlag \in Nat \ {0}
  BY PeersAssumption
<1>2. IsFiniteSet(Peers[n])
  BY <1>1, WalkOrder, FS_Subset
<1>3. Cardinality(Peers[n]) \in Nat /\ Cardinality(Peers[n]) # 0
  BY <1>1, <1>2, FS_CardinalityType, FS_EmptySet
<1>4. Replicas(n) = IF ReplicasFlag <= Cardinality(Peers[n]) THEN ReplicasFlag
                    ELSE Cardinality(Peers[n])
  BY <1>1, <1>3, MinOfTwo DEF Replicas
<1> QED
  BY <1>1, <1>2, <1>3, <1>4

\* Owners: distinct nodes of the ring of n, Replicas(n) of them or all.
LEMMA RingOwnersProperties ==
    ASSUME members \in [Nodes -> SUBSET Nodes], NEW n \in Nodes
    PROVE  LET k == Min({Replicas(n), Cardinality(members[n])})
           IN  /\ k \in Nat /\ k <= Cardinality(members[n])
               /\ RingOwners(n) \in Seq(Nodes)
               /\ Len(RingOwners(n)) = k
               /\ IsInjective(RingOwners(n))
               /\ ToSet(RingOwners(n)) \subseteq members[n]
               /\ \A i \in 1 .. k : RingOwners(n)[i] = Met(members[n], i)
<1> DEFINE k == Min({Replicas(n), Cardinality(members[n])})
           S == members[n]
           os == RingOwners(n)
<1>1. S \in SUBSET Nodes
  OBVIOUS
<1> HIDE DEF S
<1>2. /\ Cardinality(S) \in Nat
      /\ \A i \in 1 .. Cardinality(S) : Met(S, i) \in S
      /\ \A i, j \in 1 .. Cardinality(S) : Met(S, i) = Met(S, j) => i = j
  BY <1>1, MetProperties
<1>3. k \in Nat /\ k <= Cardinality(S)
  <2>1. k = IF Replicas(n) <= Cardinality(S) THEN Replicas(n) ELSE Cardinality(S)
    BY <1>2, ReplicasType, MinOfTwo DEF S
  <2> QED
    BY <1>2, <2>1, ReplicasType
<1>4. os = [i \in 1 .. k |-> Met(S, i)]
  BY DEF RingOwners, S
<1> HIDE DEF k, os
<1>5. \A i \in 1 .. k : i \in 1 .. Cardinality(S)
  BY <1>2, <1>3
<1>6. os \in [1 .. k -> Nodes] /\ \A i \in 1 .. k : os[i] = Met(S, i) /\ os[i] \in S
  BY <1>1, <1>2, <1>4, <1>5
<1>7. os \in Seq(Nodes) /\ Len(os) = k /\ DOMAIN os = 1 .. k
  <2>1. os \in Seq(Nodes)
    BY <1>3, <1>6, IsASeq
  <2> QED
    BY <1>3, <1>6, <2>1, LenProperties
<1>8. IsInjective(os) /\ ToSet(os) \subseteq S
  BY <1>2, <1>5, <1>6, <1>7 DEF IsInjective, ToSet
<1> QED
  BY <1>3, <1>6, <1>7, <1>8 DEF k, S, os

\* preferLocal orders the same owners anew.
LEMMA PreferLocalProperties ==
    ASSUME NEW os \in Seq(Nodes), IsInjective(os), NEW n
    PROVE  LET p == preferLocal(os, n)
           IN  p \in Seq(Nodes) /\ Len(p) = Len(os) /\ ToSet(p) = ToSet(os)
<1>1. CASE n \notin ToSet(os)
  BY <1>1 DEF preferLocal
<1>2. CASE n \in ToSet(os)
  <2>0. DOMAIN os = 1 .. Len(os)
    BY LenProperties
  <2>1. PICK i \in 1 .. Len(os) : os[i] = n
    BY <1>2, <2>0 DEF ToSet
  <2>2. preferLocal(os, n) = Cons(os[i], RemoveAt(os, i))
    BY <1>2, <2>1, RemoveFirstIsRemoveAt DEF preferLocal
  <2>3. LET m == Cons(os[i], RemoveAt(os, i))
        IN  m \in Seq(Nodes) /\ Len(m) = Len(os) /\ ToSet(m) = ToSet(os)
    BY MoveToFrontKeeps
  <2> QED
    BY <2>2, <2>3
<1> QED
  BY <1>1, <1>2
----------------------------------------------------------------------------
(* Types, and what goes with each place in a handler. *)

\* Who is where in a handler, and what a handler has by then.
Handlers ==
    \A r \in Reqs :
        /\ pc[r] \in {"walk", "rpc", "replied"} => r \in GetReqs
        /\ pc[r] = "fanout" => r \notin GetReqs
        /\ pc[r] = "idle" => coord[r] = Absent /\ body[r] = Absent
        /\ pc[r] # "idle" => coord[r] \in Nodes
        /\ pc[r] # "idle" /\ r \in SetReqs => body[r] # Absent
        /\ pc[r] \in {"idle", "walk", "rpc"} => reply[r] = Absent
        /\ code[r] # 0 => pc[r] = "done"

\* The walk of a GET stays within the owners.
WalkInOwners ==
    \A r \in Reqs :
        /\ IsInjective(owners[r])
        /\ pc[r] = "walk" => idx[r] >= 1
        /\ pc[r] \in {"rpc", "replied"} => idx[r] \in 1 .. Len(owners[r])

\* What is on the wire has a body, and a GET sends nothing before it ends.
Wires ==
    \A r \in Reqs, o \in Nodes :
        /\ pc[r] = "idle" => wire[r][o] = "none" /\ verdict[r][o] = "none"
        /\ r \in GetReqs /\ pc[r] # "done" => wire[r][o] = "none"
        /\ wire[r][o] # "none" /\ r \notin DelReqs => body[r] # Absent

Struct == TypeOK /\ Handlers /\ WalkInOwners /\ Wires

\* The steps of Next one by one.
LEMMA StepCases ==
    ASSUME TypeOK, [Next]_vars
    PROVE  \/ UNCHANGED vars
           \/ \E r \in SetReqs, n \in Nodes, at \in Stamps, ttl \in TTLs : handleSet(r, n, at, ttl)
           \/ \E r \in DelReqs, n \in Nodes : handleDelete(r, n)
           \/ \E r \in GetReqs, n \in Nodes : handleGet(r, n)
           \/ \E r \in Reqs, o \in Nodes :
                 \/ CollectAck(r, o) \/ CollectErr(r, o)
                 \/ ServeWrite(r, o) \/ WriteUnknown(r, o)
           \/ \E r \in Reqs :
                 \/ FanoutDone(r)
                 \/ WalkLocal(r) \/ WalkSkip(r) \/ WalkUnknown(r) \/ WalkSend(r)
                 \/ ServeRead(r) \/ Recv(r) \/ ReadErr(r) \/ WalkEnd(r)
           \/ \E n \in Nodes : Evict(n) \/ Sweep(n) \/ Crash(n) \/ Restart(n)
           \/ \E n, id \in Nodes : join(n, id) \/ leave(n, id)
           \/ TimePasses
<1>1. ASSUME NEW r \in Reqs, NEW o \in OwnerSet(r) PROVE o \in Nodes
  <2>1. owners[r] \in Seq(Nodes)
    BY DEF TypeOK
  <2>2. DOMAIN owners[r] = 1 .. Len(owners[r])
    BY <2>1, LenProperties
  <2> QED
    BY <2>1, <2>2, ElementOfSeq DEF OwnerSet, ToSet
<1>2. CASE Arrive
  BY <1>2 DEF Arrive
<1>3. ASSUME NEW r \in Reqs, Handler(r)
      PROVE  \/ \E o \in Nodes : CollectAck(r, o) \/ CollectErr(r, o) \/ ServeWrite(r, o)
             \/ FanoutDone(r)
             \/ WalkLocal(r) \/ WalkSkip(r) \/ WalkUnknown(r) \/ WalkSend(r)
             \/ Recv(r) \/ ReadErr(r) \/ WalkEnd(r)
  BY <1>1, <1>3 DEF Handler
<1>4. CASE Answered
  BY <1>4 DEF Answered
<1> QED
  BY <1>2, <1>3, <1>4 DEF Next

\* GET asks one of the owners.
LEMMA TargetIsOwner ==
    ASSUME TypeOK, NEW r \in Reqs, IsInjective(owners[r]), idx[r] \in 1 .. Len(owners[r])
    PROVE  Target(r) \in OwnerSet(r) /\ Target(r) \in Nodes
<1>1. owners[r] \in Seq(Nodes)
  BY DEF TypeOK
<1> DEFINE p == preferLocal(owners[r], coord[r])
<1>2. p \in Seq(Nodes) /\ Len(p) = Len(owners[r]) /\ ToSet(p) = ToSet(owners[r])
  BY <1>1, PreferLocalProperties
<1> HIDE DEF p
<1>3. DOMAIN p = 1 .. Len(owners[r])
  BY <1>2, LenProperties
<1>4. p[idx[r]] \in ToSet(p) /\ p[idx[r]] \in Nodes
  BY <1>2, <1>3, ElementOfSeq DEF ToSet
<1> QED
  BY <1>2, <1>4 DEF Target, p, OwnerSet

\* Division and multiplication by the length of a millisecond.
LEMMA MsArithmetic ==
    ASSUME NEW d \in Nat
    PROVE  d \div Ms \in Nat /\ d * Ms \in Nat /\ (d > 0 => d * Ms > 0)
BY NumbersAssumption

\* A live entry that a GET of this process has in its hand.
Fresh(ent) == ent \in Entry /\ (ent.exp = 0 \/ now < ent.exp)

\* What a hit does with a value and a stamp.
HitStep(r, val, at, servedBy) ==
    /\ \E g \in Reply : /\ g.val = val /\ g.at = at
                        /\ reply' = [reply EXCEPT ![r] = g]
    /\ \/ UNCHANGED <<body, wire>>
       \/ /\ \E b \in Body : /\ b.val = val /\ b.at = at
                             /\ body' = [body EXCEPT ![r] = b]
          /\ wire' = [wire EXCEPT ![r] =
                        [o \in Nodes |-> IF o \in OwnerSet(r) \ {servedBy} THEN "sent" ELSE "none"]]
    /\ reached' = [reached EXCEPT ![r] = TRUE]
    /\ code' = [code EXCEPT ![r] = 200]
    /\ pc' = [pc EXCEPT ![r] = "done"]
    /\ UNCHANGED idx

\* The payload of a live entry.
LEMMA PayloadType ==
    ASSUME TypeOK, NEW ent, Fresh(ent)
    PROVE  /\ getPayload(ent) \in Reply
           /\ getPayload(ent).val = ent.val /\ getPayload(ent).at = ent.at
<1>1. ent.val \in SetReqs /\ ent.at \in Stamps /\ ent.exp \in Nat /\ now \in Nat
  BY DEF Fresh, Entry, TypeOK
<1>2. ent.exp # 0 => (ent.exp - now) \div Ms \in Nat
  <2> SUFFICES ASSUME ent.exp # 0 PROVE (ent.exp - now) \div Ms \in Nat
    OBVIOUS
  <2>1. ent.exp - now \in Nat
    BY <1>1 DEF Fresh
  <2> QED
    BY <2>1, MsArithmetic
<1> QED
  BY <1>1, <1>2 DEF getPayload, Reply

\* Hit writes back what it found.
LEMMA HitEffect ==
    ASSUME TypeOK, NEW r \in Reqs, NEW ent, Fresh(ent), NEW servedBy, Hit(r, ent, servedBy)
    PROVE  HitStep(r, ent.val, ent.at, servedBy)
<1>1. ent.val \in SetReqs /\ ent.at \in Stamps /\ ent.exp \in Nat /\ now \in Nat
  BY DEF Fresh, Entry, TypeOK
<1>2. PICK slip \in {0, 1} :
        IF ent.exp # 0 /\ RepairTTL(ent, slip) <= 0
        THEN UNCHANGED <<body, wire>>
        ELSE /\ body' = [body EXCEPT ![r] = RepairBody(ent, slip)]
             /\ wire' = [wire EXCEPT ![r] =
                           [o \in Nodes |-> IF o \in OwnerSet(r) \ {servedBy} THEN "sent" ELSE "none"]]
  BY DEF Hit, readRepair
<1>3. RepairTTL(ent, slip) \in Int /\ (ent.exp = 0 => RepairTTL(ent, slip) = 0)
  <2>1. ent.exp - now - slip \in Int
    BY <1>1
  <2>2. (ent.exp - now - slip) \div Ms \in Int
    BY <2>1, NumbersAssumption
  <2> QED
    BY <2>2 DEF RepairTTL
<1>4. ~(ent.exp # 0 /\ RepairTTL(ent, slip) <= 0) =>
         /\ RepairBody(ent, slip) \in Body
         /\ RepairBody(ent, slip).val = ent.val /\ RepairBody(ent, slip).at = ent.at
  BY <1>1, <1>3 DEF RepairBody, Body
<1>5. \/ UNCHANGED <<body, wire>>
      \/ /\ \E b \in Body : /\ b.val = ent.val /\ b.at = ent.at
                            /\ body' = [body EXCEPT ![r] = b]
         /\ wire' = [wire EXCEPT ![r] =
                       [o \in Nodes |-> IF o \in OwnerSet(r) \ {servedBy} THEN "sent" ELSE "none"]]
  BY <1>2, <1>4
<1>6. \E g \in Reply : /\ g.val = ent.val /\ g.at = ent.at
                       /\ reply' = [reply EXCEPT ![r] = g]
  BY PayloadType DEF Hit
<1> QED
  BY <1>5, <1>6 DEF Hit, HitStep

\* readOwner's reading of a payload is a live entry again.
LEMMA FromPayloadFresh ==
    ASSUME TypeOK, NEW g \in Reply
    PROVE  /\ Fresh(FromPayload(g))
           /\ FromPayload(g).val = g.val /\ FromPayload(g).at = g.at
<1>1. g.val \in SetReqs /\ g.at \in Stamps /\ g.ttl \in Nat \cup {-1} /\ now \in Nat
  BY DEF Reply, TypeOK
<1>2. g.ttl > 0 => g.ttl * Ms \in Nat /\ g.ttl * Ms > 0
  <2> SUFFICES ASSUME g.ttl > 0 PROVE g.ttl * Ms \in Nat /\ g.ttl * Ms > 0
    OBVIOUS
  <2>1. g.ttl \in Nat
    BY <1>1
  <2> QED
    BY <2>1, MsArithmetic
<1> DEFINE prod == g.ttl * Ms
           e == FromPayload(g)
<1>3. e.val = g.val /\ e.at = g.at /\ e.exp = IF g.ttl > 0 THEN now + prod ELSE 0
  BY DEF FromPayload
<1>4. e = [val |-> e.val, at |-> e.at, exp |-> e.exp]
  BY DEF FromPayload
<1> HIDE DEF e
<1>5. e.exp \in Nat /\ (e.exp = 0 \/ now < e.exp)
  <2>1. CASE g.ttl > 0
    <3>1. prod \in Nat /\ prod > 0
      BY <1>2, <2>1
    <3> HIDE DEF prod
    <3> QED
      BY <1>1, <1>3, <2>1, <3>1
  <2>2. CASE ~(g.ttl > 0)
    BY <1>3, <2>2
  <2> QED
    BY <2>1, <2>2
<1>6. e \in Entry
  BY <1>1, <1>3, <1>4, <1>5 DEF Entry
<1> QED
  BY <1>3, <1>5, <1>6 DEF Fresh, e

\* A GET that hits in the store of its own process.
LEMMA WalkLocalHit ==
    ASSUME TypeOK, NEW r \in Reqs, coord[r] \in Nodes, WalkLocal(r), Live(coord[r])
    PROVE  /\ HitStep(r, store[coord[r]].val, store[coord[r]].at, coord[r])
           /\ store[coord[r]] \in Entry
           /\ store' = store /\ wiped' = wiped
<1>1. Hit(r, store[coord[r]], coord[r]) /\ StoreGet(coord[r])
  BY DEF WalkLocal
<1>2. store[coord[r]] \in Entry /\ Fresh(store[coord[r]])
  BY DEF TypeOK, Live, Fresh
<1>3. store' = store
  BY <1>1 DEF StoreGet, TypeOK
<1>4. wiped' = wiped
  BY <1>1, Zenon DEF StoreGet, TypeOK
<1> QED
  BY <1>1, <1>2, <1>3, <1>4, HitEffect

\* A GET that gets a hit from a peer.
LEMMA RecvHit ==
    ASSUME TypeOK, NEW r \in Reqs, Recv(r), reply[r] # Absent
    PROVE  reply[r] \in Reply /\ HitStep(r, reply[r].val, reply[r].at, Target(r))
<1>1. reply[r] \in Reply
  BY DEF TypeOK
<1>2. Hit(r, FromPayload(reply[r]), Target(r))
  BY DEF Recv
<1> QED
  BY <1>1, <1>2, FromPayloadFresh, HitEffect

\* store.Get: the entry stays, or it goes and wiped records it.
LEMMA StoreGetEffect ==
    ASSUME TypeOK, NEW n \in Nodes, StoreGet(n)
    PROVE  /\ store' \in [Nodes -> Entry \cup {Absent}]
           /\ wiped' \in BOOLEAN
           /\ \A m \in Nodes : store'[m] = store[m] \/ store'[m] = Absent
           /\ wiped => wiped'
           /\ ~wiped' => store' = store
           /\ Live(n) => store' = store
           /\ store[n] # Absent /\ ~Live(n) => wiped'
<1>1. /\ store' \in [Nodes -> Entry \cup {Absent}]
      /\ \A m \in Nodes : store'[m] = store[m] \/ store'[m] = Absent
      /\ Live(n) => store' = store
      /\ store[n] = Absent => store' = store
  BY DEF StoreGet, TypeOK
<1>2. /\ wiped' \in BOOLEAN
      /\ wiped => wiped'
      /\ store[n] # Absent /\ ~Live(n) => wiped'
  BY Zenon DEF StoreGet, TypeOK
<1> QED
  BY <1>1, <1>2

\* store.Set: the newer of the two stamps stays.
LEMMA StoreSetEffect ==
    ASSUME TypeOK, NEW n \in Nodes, NEW r \in Reqs, body[r] # Absent, StoreSet(n, r)
    PROVE  /\ store' \in [Nodes -> Entry \cup {Absent}]
           /\ \A m \in Nodes : m # n => store'[m] = store[m]
           /\ \/ /\ store' = store
                 /\ store[n] # Absent /\ store[n].at > body[r].at
              \/ /\ store'[n] # Absent
                 /\ store'[n].val = body[r].val /\ store'[n].at = body[r].at
                 /\ store[n] # Absent => ~(store[n].at > body[r].at)
<1>1. body[r] \in Body /\ now \in Nat
  BY DEF TypeOK
<1>2. CASE store[n] # Absent /\ Stale(store[n], body[r].at)
  BY <1>2 DEF StoreSet, Stale, TypeOK
<1>3. CASE ~(store[n] # Absent /\ Stale(store[n], body[r].at))
  <2> DEFINE x == IF body[r].ttl > 0 THEN now + body[r].ttl * Ms ELSE 0
             e == [val |-> body[r].val, at |-> body[r].at, exp |-> x]
  <2>1. store' = [store EXCEPT ![n] = e]
    BY <1>3 DEF StoreSet
  <2>2. x \in Nat
    <3>1. body[r].ttl \in Nat
      BY <1>1 DEF Body
    <3>2. body[r].ttl * Ms \in Nat
      BY <3>1, MsArithmetic
    <3> QED
      BY <1>1, <3>2
  <2> HIDE DEF x
  <2>3. e \in Entry /\ e # Absent /\ e.val = body[r].val /\ e.at = body[r].at
    <3>1. e \in Entry /\ e.val = body[r].val /\ e.at = body[r].at
      BY <1>1, <2>2 DEF Entry, Body
    <3> QED
      BY <3>1, AbsentAssumption
  <2> HIDE DEF e
  <2>4. store \in [Nodes -> Entry \cup {Absent}]
    BY DEF TypeOK
  <2>5. store' \in [Nodes -> Entry \cup {Absent}] /\ store'[n] = e
        /\ \A m \in Nodes : m # n => store'[m] = store[m]
    BY <2>1, <2>3, <2>4
  <2> QED
    BY <1>3, <2>3, <2>5 DEF Stale
<1> QED
  BY <1>2, <1>3

\* The places where a GET has an owner before it.
Asking(r) == Walking(r) \/ pc[r] \in {"rpc", "replied"}

\* That owner is one of the key's.
LEMMA AskedIsOwner ==
    ASSUME TypeOK, Handlers, WalkInOwners, NEW r \in Reqs, Asking(r)
    PROVE  /\ r \in GetReqs
           /\ coord[r] \in Nodes
           /\ idx[r] \in 1 .. Len(owners[r])
           /\ Target(r) \in OwnerSet(r) /\ Target(r) \in Nodes
<1>1. Len(owners[r]) \in Nat /\ idx[r] \in Nat
  BY LenProperties DEF TypeOK
<1>2. idx[r] \in 1 .. Len(owners[r])
  BY <1>1 DEF Asking, WalkInOwners, Walking
<1>3. Target(r) \in OwnerSet(r) /\ Target(r) \in Nodes
  BY <1>2, TargetIsOwner DEF WalkInOwners
<1> QED
  BY <1>2, <1>3 DEF Handlers, Asking, Walking

\* Live is what a read may return.
LEMMA LiveIsFresh ==
    ASSUME TypeOK, NEW n \in Nodes, Live(n)
    PROVE  store[n] \in Entry /\ Fresh(store[n])
BY DEF TypeOK, Live, Fresh

\* Every step keeps the types.
LEMMA TypeStep ==
    ASSUME Struct, [Next]_vars
    PROVE  TypeOK'
<1> USE DEF Struct
<1>1. CASE UNCHANGED vars
  BY <1>1 DEF vars, req_vars, hist, TypeOK
<1>f. ASSUME NEW r \in Reqs, NEW n \in Nodes, Fanout(r, n), body' \in [Reqs -> Body \cup {Absent}]
      PROVE  TypeOK'
  <2>1. RingOwners(n) \in Seq(Nodes)
    BY RingOwnersProperties DEF TypeOK
  <2>2. /\ pc' \in [Reqs -> {"idle", "fanout", "walk", "rpc", "replied", "done", "dead"}]
        /\ coord' \in [Reqs -> Nodes \cup {Absent}]
        /\ owners' \in [Reqs -> Seq(Nodes)]
    BY <1>f, <2>1 DEF Fanout, TypeOK
  <2>3. /\ wire' \in [Reqs -> [Nodes -> {"none", "sent", "done"}]]
        /\ verdict' \in [Reqs -> [Nodes -> {"none", "wait", "ok", "err"}]]
    BY <1>f DEF Fanout, TypeOK
  <2> QED
    BY <1>f, <2>2, <2>3 DEF Fanout, TypeOK
<1>2. ASSUME NEW r \in SetReqs, NEW n \in Nodes, NEW at \in Stamps, NEW ttl \in TTLs,
             handleSet(r, n, at, ttl)
      PROVE  TypeOK'
  <2>1. [val |-> r, at |-> at, ttl |-> ttl] \in Body
    BY NumbersAssumption DEF Body
  <2>2. body' \in [Reqs -> Body \cup {Absent}]
    BY <1>2, <2>1 DEF handleSet, TypeOK
  <2> QED
    BY <1>2, <1>f, <2>2 DEF handleSet, Reqs
<1>3. ASSUME NEW r \in DelReqs, NEW n \in Nodes, handleDelete(r, n)
      PROVE  TypeOK'
  BY <1>3, <1>f DEF handleDelete, Reqs, TypeOK
<1>4. ASSUME NEW r \in GetReqs, NEW n \in Nodes, handleGet(r, n)
      PROVE  TypeOK'
  <2>1. RingOwners(n) \in Seq(Nodes)
    BY RingOwnersProperties DEF TypeOK
  <2>2. FullyAcked \in SUBSET SetReqs
    BY DEF FullyAcked
  <2> QED
    BY <1>4, <2>1, <2>2 DEF handleGet, Reqs, TypeOK
<1>5. ASSUME NEW r \in Reqs, NEW o \in Nodes, CollectAck(r, o) PROVE TypeOK'
  BY <1>5 DEF CollectAck, hist, TypeOK
<1>m. ASSUME NEW n \in Nodes, NEW p \in Nodes, markDown(n, p)
      PROVE  downUntil' \in [Nodes -> [Nodes -> Nat]]
  BY <1>m, NumbersAssumption DEF markDown, TypeOK
<1> DEFINE Reasons == /\ lastErr \in [Nodes -> [Nodes -> Nat]]
                      /\ nameless \in [Nodes -> SUBSET Nodes]
<1>e. ASSUME NEW n \in Nodes, NEW p \in Nodes, RpcFailed(n, p) \/ NoURL(n, p)
      PROVE  Reasons'
  <2>1. CASE RpcFailed(n, p)
    BY <2>1 DEF RpcFailed, TypeOK
  <2>2. CASE NoURL(n, p)
    <3>1. nameless' = [nameless EXCEPT ![n] = nameless[n] \cup {p}] /\ lastErr' = lastErr
      BY <2>2 DEF NoURL
    <3>2. nameless[n] \cup {p} \in SUBSET Nodes
      BY DEF TypeOK
    <3> QED
      BY <3>1, <3>2 DEF TypeOK
  <2> QED
    BY <1>e, <2>1, <2>2
<1>6. ASSUME NEW r \in Reqs, NEW o \in Nodes, CollectErr(r, o) PROVE TypeOK'
  <2>1. coord[r] \in Nodes
    BY <1>6 DEF CollectErr, Handlers
  <2>2. /\ downUntil' \in [Nodes -> [Nodes -> Nat]] /\ Reasons'
    BY <1>6, <1>m, <1>e, <2>1 DEF CollectErr
  <2> QED
    BY <1>6, <2>2 DEF CollectErr, TypeOK
<1>7. ASSUME NEW r \in Reqs, NEW o \in Nodes, ServeWrite(r, o) PROVE TypeOK'
  <2>1. store' \in [Nodes -> Entry \cup {Absent}] /\ wiped' \in BOOLEAN
    <3>1. CASE r \in DelReqs
      <4>1. store' = [store EXCEPT ![o] = Absent] /\ wiped' = TRUE
        BY <1>7, <3>1 DEF ServeWrite
      <4> QED
        BY <4>1 DEF TypeOK
    <3>2. CASE r \notin DelReqs
      <4>1. body[r] # Absent
        BY <1>7, <3>2 DEF ServeWrite, Wires
      <4> QED
        <5>1. StoreSet(o, r) /\ wiped' = wiped
          BY <1>7, <3>2 DEF ServeWrite
        <5> QED
          BY <4>1, <5>1, StoreSetEffect DEF TypeOK
    <3> QED
      BY <3>1, <3>2
  <2> QED
    BY <1>7, <2>1 DEF ServeWrite, TypeOK
<1>8. ASSUME NEW r \in Reqs, NEW o \in Nodes, WriteUnknown(r, o) PROVE TypeOK'
  <2>1. coord[r] \in Nodes
    BY <1>8 DEF WriteUnknown, TypeOK
  <2>2. /\ downUntil' \in [Nodes -> [Nodes -> Nat]] /\ Reasons'
        /\ verdict' \in [Reqs -> [Nodes -> {"none", "wait", "ok", "err"}]]
    <3>1. CASE verdict[r][o] = "wait"
      <4>1. /\ verdict' = [verdict EXCEPT ![r][o] = "err"]
            /\ markDown(coord[r], o) /\ NoURL(coord[r], o)
        BY <1>8, <3>1 DEF WriteUnknown
      <4>2. verdict' \in [Reqs -> [Nodes -> {"none", "wait", "ok", "err"}]]
        BY <4>1 DEF TypeOK
      <4> QED
        BY <1>m, <1>e, <2>1, <4>1, <4>2
    <3>2. CASE verdict[r][o] # "wait"
      BY <1>8, <3>2 DEF WriteUnknown, TypeOK
    <3> QED
      BY <3>1, <3>2
  <2> QED
    BY <1>8, <2>2 DEF WriteUnknown, TypeOK
<1>10. ASSUME NEW r \in Reqs, FanoutDone(r) PROVE TypeOK'
  BY <1>10 DEF FanoutDone, hist, TypeOK
<1>h. ASSUME NEW r \in Reqs, NEW val, NEW at, NEW sb, HitStep(r, val, at, sb)
      PROVE  /\ pc' \in [Reqs -> {"idle", "fanout", "walk", "rpc", "replied", "done", "dead"}]
             /\ body' \in [Reqs -> Body \cup {Absent}]
             /\ wire' \in [Reqs -> [Nodes -> {"none", "sent", "done"}]]
             /\ idx' \in [Reqs -> Nat]
             /\ reached' \in [Reqs -> BOOLEAN]
             /\ reply' \in [Reqs -> Reply \cup {Absent}]
             /\ code' \in [Reqs -> {0, 200, 404, 503}]
  <2>1. /\ pc' \in [Reqs -> {"idle", "fanout", "walk", "rpc", "replied", "done", "dead"}]
        /\ idx' \in [Reqs -> Nat]
        /\ reached' \in [Reqs -> BOOLEAN]
        /\ code' \in [Reqs -> {0, 200, 404, 503}]
    BY <1>h DEF HitStep, TypeOK
  <2>2. reply' \in [Reqs -> Reply \cup {Absent}]
    BY <1>h DEF HitStep, TypeOK
  <2>3. CASE UNCHANGED <<body, wire>>
    BY <2>1, <2>2, <2>3 DEF TypeOK
  <2>4. ASSUME NEW b \in Body, body' = [body EXCEPT ![r] = b],
               wire' = [wire EXCEPT ![r] =
                          [o \in Nodes |-> IF o \in OwnerSet(r) \ {sb} THEN "sent" ELSE "none"]]
        PROVE  /\ body' \in [Reqs -> Body \cup {Absent}]
               /\ wire' \in [Reqs -> [Nodes -> {"none", "sent", "done"}]]
    <3>1. body' \in [Reqs -> Body \cup {Absent}]
      BY <2>4 DEF TypeOK
    <3>2. [o \in Nodes |-> IF o \in OwnerSet(r) \ {sb} THEN "sent" ELSE "none"]
            \in [Nodes -> {"none", "sent", "done"}]
      OBVIOUS
    <3> QED
      BY <2>4, <3>1, <3>2 DEF TypeOK
  <2> QED
    BY <1>h, <2>1, <2>2, <2>3, <2>4 DEF HitStep
<1>s. ASSUME NEW r \in Reqs, Miss(r)
      PROVE  /\ pc' \in [Reqs -> {"idle", "fanout", "walk", "rpc", "replied", "done", "dead"}]
             /\ body' \in [Reqs -> Body \cup {Absent}]
             /\ wire' \in [Reqs -> [Nodes -> {"none", "sent", "done"}]]
             /\ idx' \in [Reqs -> Nat]
             /\ reached' \in [Reqs -> BOOLEAN]
             /\ reply' \in [Reqs -> Reply \cup {Absent}]
             /\ code' \in [Reqs -> {0, 200, 404, 503}]
  BY <1>s DEF Miss, TypeOK
<1>11. ASSUME NEW r \in Reqs, WalkLocal(r) PROVE TypeOK'
  <2>1. coord[r] \in Nodes
    BY <1>11, AskedIsOwner DEF WalkLocal, Asking
  <2>2. store' \in [Nodes -> Entry \cup {Absent}] /\ wiped' \in BOOLEAN
    BY <1>11, <2>1, StoreGetEffect DEF WalkLocal
  <2>3. CASE Live(coord[r])
    <3>1. HitStep(r, store[coord[r]].val, store[coord[r]].at, coord[r])
      BY <1>11, <2>1, <2>3, WalkLocalHit
    <3> QED
      BY <1>11, <1>h, <2>2, <3>1 DEF WalkLocal, TypeOK
  <2>4. CASE ~Live(coord[r])
    <3>1. Miss(r)
      BY <1>11, <2>4 DEF WalkLocal
    <3> QED
      BY <1>11, <1>s, <2>2, <3>1 DEF WalkLocal, TypeOK
  <2> QED
    BY <2>3, <2>4
<1>p. ASSUME NEW r \in Reqs, Asking(r), PassOver(r), Reasons'
      PROVE  TypeOK'
  <2>1. PICK t \in Nodes : t = Target(r) /\ coord[r] \in Nodes
    BY <1>p, AskedIsOwner
  <2>2. downUntil' \in [Nodes -> [Nodes -> Nat]]
    BY <1>p, <1>m, <2>1 DEF PassOver
  <2>3. unheard' \in [Reqs -> SUBSET Nodes]
    BY <1>p, <2>1 DEF PassOver, TypeOK
  <2>4. /\ idx' \in [Reqs -> Nat] /\ reply' \in [Reqs -> Reply \cup {Absent}]
        /\ pc' \in [Reqs -> {"idle", "fanout", "walk", "rpc", "replied", "done", "dead"}]
    BY <1>p DEF PassOver, TypeOK
  <2> QED
    BY <1>p, <2>2, <2>3, <2>4 DEF PassOver, TypeOK
<1>12. ASSUME NEW r \in Reqs, WalkSkip(r) PROVE TypeOK'
  <2>1. Asking(r) /\ PassOver(r) /\ UNCHANGED <<lastErr, nameless>>
    BY <1>12 DEF WalkSkip, Asking
  <2> QED
    BY <1>p, <2>1 DEF TypeOK
<1>13. ASSUME NEW r \in Reqs, WalkUnknown(r) PROVE TypeOK'
  BY <1>13, <1>p, <1>e, AskedIsOwner DEF WalkUnknown, Asking
<1>14. ASSUME NEW r \in Reqs, WalkSend(r) PROVE TypeOK'
  <2>1. PICK t \in Nodes : t = Target(r) /\ coord[r] \in Nodes
    BY <1>14, AskedIsOwner DEF WalkSend, Asking
  <2>2. downUntil' \in [Nodes -> [Nodes -> Nat]]
    BY <1>14, <2>1 DEF WalkSend, TypeOK
  <2> QED
    BY <1>14, <2>2 DEF WalkSend, hist, TypeOK
<1>15. ASSUME NEW r \in Reqs, ServeRead(r) PROVE TypeOK'
  <2>1. PICK t \in Nodes : t = Target(r)
    BY <1>15, AskedIsOwner DEF ServeRead, Asking
  <2>2. store' \in [Nodes -> Entry \cup {Absent}] /\ wiped' \in BOOLEAN
    BY <1>15, <2>1, StoreGetEffect DEF ServeRead
  <2>3. Live(t) => getPayload(store[t]) \in Reply
    BY PayloadType, LiveIsFresh
  <2>4. reply' \in [Reqs -> Reply \cup {Absent}]
    BY <1>15, <2>1, <2>3 DEF ServeRead, TypeOK
  <2> QED
    BY <1>15, <2>2, <2>4 DEF ServeRead, TypeOK
<1>16. ASSUME NEW r \in Reqs, Recv(r) PROVE TypeOK'
  <2>3. CASE reply[r] # Absent
    <3>1. HitStep(r, reply[r].val, reply[r].at, Target(r))
      BY <1>16, <2>3, RecvHit
    <3> QED
      BY <1>16, <1>h, <3>1 DEF Recv, hist, TypeOK
  <2>4. CASE reply[r] = Absent
    <3>1. Miss(r)
      BY <1>16, <2>4 DEF Recv
    <3> QED
      BY <1>16, <1>s, <3>1 DEF Recv, hist, TypeOK
  <2> QED
    BY <2>3, <2>4
<1>17. ASSUME NEW r \in Reqs, ReadErr(r) PROVE TypeOK'
  BY <1>17, <1>p, <1>e, AskedIsOwner DEF ReadErr, Asking
<1>18. ASSUME NEW r \in Reqs, WalkEnd(r) PROVE TypeOK'
  BY <1>18 DEF WalkEnd, hist, TypeOK
<1>19. ASSUME NEW n \in Nodes, Evict(n) PROVE TypeOK'
  BY <1>19 DEF Evict, req_vars, TypeOK
<1>20. ASSUME NEW n \in Nodes, Sweep(n) PROVE TypeOK'
  <2>2. store' \in [Nodes -> Entry \cup {Absent}] /\ wiped' \in BOOLEAN
    BY <1>20, StoreGetEffect DEF Sweep
  <2> QED
    BY <1>20, <2>2 DEF Sweep, req_vars, TypeOK
<1>21. ASSUME NEW n \in Nodes, Crash(n) PROVE TypeOK'
  <2>1. /\ store' \in [Nodes -> Entry \cup {Absent}] /\ up' \in SUBSET Nodes
        /\ downUntil' \in [Nodes -> [Nodes -> Nat]] /\ Reasons'
    BY <1>21 DEF Crash, TypeOK
  <2>2. /\ wiped' \in BOOLEAN
        /\ reached' \in [Reqs -> BOOLEAN]
    BY <1>21, Zenon DEF Crash, TypeOK
  <2>3. /\ pc' \in [Reqs -> {"idle", "fanout", "walk", "rpc", "replied", "done", "dead"}]
        /\ verdict' \in [Reqs -> [Nodes -> {"none", "wait", "ok", "err"}]]
        /\ idx' \in [Reqs -> Nat]
    BY <1>21 DEF Crash, TypeOK
  <2>4. wire' \in [Reqs -> [Nodes -> {"none", "sent", "done"}]]
    BY <1>21 DEF Crash, TypeOK
  <2> QED
    BY <1>21, <2>1, <2>2, <2>3, <2>4 DEF Crash, TypeOK
<1>22. ASSUME NEW n \in Nodes, Restart(n) PROVE TypeOK'
  <2>1. members' \in [Nodes -> SUBSET Nodes] /\ up' \in SUBSET Nodes
    <3>1. Peers[n] \in SUBSET Nodes
      BY PeersAssumption
    <3> QED
      BY <1>22, <3>1 DEF Restart, TypeOK
  <2> QED
    BY <1>22, <2>1 DEF Restart, req_vars, hist, TypeOK
<1>23. ASSUME NEW n \in Nodes, NEW id \in Nodes, join(n, id) PROVE TypeOK'
  BY <1>23 DEF join, req_vars, hist, TypeOK
<1>24. ASSUME NEW n \in Nodes, NEW id \in Nodes, leave(n, id) PROVE TypeOK'
  BY <1>24 DEF leave, req_vars, hist, TypeOK
<1>25. CASE TimePasses
  BY <1>25 DEF TimePasses, req_vars, hist, TypeOK
<1>26. TypeOK
  OBVIOUS
<1> HIDE DEF Struct
<1> QED
  BY <1>1, <1>2, <1>3, <1>4, <1>5, <1>6, <1>7, <1>8, <1>10, <1>11, <1>12, <1>13,
     <1>14, <1>15, <1>16, <1>17, <1>18, <1>19, <1>20, <1>21, <1>22, <1>23, <1>24, <1>25,
     <1>26, StepCases, Zenon

\* Every step keeps what goes with each place in a handler.
LEMMA HandlersStep ==
    ASSUME Struct, [Next]_vars
    PROVE  Handlers'
<1> USE DEF Struct
<1>0. TypeOK
  OBVIOUS
<1>u. CASE UNCHANGED <<pc, coord, body, reply, code>>
  BY <1>u DEF Handlers
<1>1. CASE UNCHANGED vars
  BY <1>1, <1>u DEF vars, req_vars
<1>2. ASSUME NEW r \in SetReqs, NEW n \in Nodes, NEW at \in Stamps, NEW ttl \in TTLs,
             handleSet(r, n, at, ttl)
      PROVE  Handlers'
  <2>1. [val |-> r, at |-> at, ttl |-> ttl] # Absent
    <3>1. [val |-> r, at |-> at, ttl |-> ttl] \in Body
      BY NumbersAssumption DEF Body
    <3> QED
      BY <3>1, AbsentAssumption
  <2> QED
    BY <1>2, <2>1, ReqsAssumption DEF handleSet, Fanout, Reqs, Handlers, TypeOK
<1>3. ASSUME NEW r \in DelReqs, NEW n \in Nodes, handleDelete(r, n)
      PROVE  Handlers'
  BY <1>3, ReqsAssumption DEF handleDelete, Fanout, Reqs, Handlers, TypeOK
<1>4. ASSUME NEW r \in GetReqs, NEW n \in Nodes, handleGet(r, n)
      PROVE  Handlers'
  BY <1>4, ReqsAssumption DEF handleGet, Reqs, Handlers, TypeOK
<1>5. ASSUME NEW r \in Reqs, NEW o \in Nodes,
             \/ CollectAck(r, o) \/ CollectErr(r, o)
             \/ ServeWrite(r, o) \/ WriteUnknown(r, o)
      PROVE  Handlers'
  BY <1>5, <1>u DEF CollectAck, CollectErr, ServeWrite, WriteUnknown
<1>6. ASSUME NEW r \in Reqs, FanoutDone(r) PROVE Handlers'
  BY <1>6 DEF FanoutDone, Handlers, TypeOK
<1>h. ASSUME NEW r \in GetReqs, NEW val, NEW at, NEW sb, HitStep(r, val, at, sb),
             pc[r] # "idle", UNCHANGED coord
      PROVE  Handlers'
  <2>1. r \in Reqs /\ r \notin SetReqs
    BY ReqsAssumption DEF Reqs
  <2>2. \A q \in Reqs : q # r => /\ pc'[q] = pc[q] /\ body'[q] = body[q]
                                 /\ reply'[q] = reply[q] /\ code'[q] = code[q]
    BY <1>h DEF HitStep, TypeOK
  <2>3. pc'[r] = "done" /\ coord'[r] \in Nodes
    BY <1>h, <2>1 DEF HitStep, TypeOK, Handlers
  <2> QED
    BY <1>h, <2>1, <2>2, <2>3 DEF Handlers
<1>s. ASSUME NEW r \in GetReqs, Miss(r), pc[r] # "idle", reply[r] = Absent, code[r] = 0, UNCHANGED coord
      PROVE  Handlers'
  BY <1>s, ReqsAssumption DEF Miss, Handlers, Reqs, TypeOK
<1>7. ASSUME NEW r \in Reqs, WalkLocal(r) PROVE Handlers'
  <2>1. coord[r] \in Nodes /\ r \in GetReqs /\ pc[r] = "walk" /\ code[r] = 0 /\ reply[r] = Absent
    BY <1>7, AskedIsOwner DEF WalkLocal, Walking, Asking, Handlers
  <2>2. UNCHANGED coord
    BY <1>7 DEF WalkLocal
  <2>3. CASE Live(coord[r])
    BY <1>7, <1>h, <2>1, <2>2, <2>3, WalkLocalHit
  <2>4. CASE ~Live(coord[r])
    BY <1>7, <1>s, <2>1, <2>2, <2>4 DEF WalkLocal
  <2> QED
    BY <2>3, <2>4
<1>p. ASSUME NEW r \in Reqs, Asking(r), PassOver(r) PROVE Handlers'
  <2>1. r \in GetReqs /\ pc[r] # "idle" /\ code[r] = 0
    BY <1>p, AskedIsOwner DEF Asking, Walking, Handlers
  <2> QED
    BY <1>p, <2>1, ReqsAssumption DEF PassOver, Handlers, TypeOK
<1>8. ASSUME NEW r \in Reqs, WalkSkip(r) \/ WalkUnknown(r) \/ ReadErr(r) PROVE Handlers'
  BY <1>8, <1>p DEF WalkSkip, WalkUnknown, ReadErr, Asking
<1>9. ASSUME NEW r \in Reqs, WalkSend(r) PROVE Handlers'
  BY <1>9 DEF WalkSend, Walking, Handlers, TypeOK
<1>10. ASSUME NEW r \in Reqs, ServeRead(r) PROVE Handlers'
  BY <1>10 DEF ServeRead, Handlers, TypeOK
<1>11. ASSUME NEW r \in Reqs, Recv(r) PROVE Handlers'
  <2>1. r \in GetReqs /\ pc[r] = "replied" /\ code[r] = 0 /\ UNCHANGED coord
    BY <1>11 DEF Recv, Handlers
  <2>3. CASE reply[r] # Absent
    BY <1>11, <1>h, <2>1, <2>3, RecvHit
  <2>4. CASE reply[r] = Absent
    BY <1>11, <1>s, <2>1, <2>4 DEF Recv
  <2> QED
    BY <2>3, <2>4
<1>12. ASSUME NEW r \in Reqs, WalkEnd(r) PROVE Handlers'
  BY <1>12 DEF WalkEnd, Handlers, TypeOK
<1>13. ASSUME NEW n \in Nodes, Evict(n) \/ Sweep(n) \/ Restart(n) PROVE Handlers'
  BY <1>13, <1>u DEF Evict, Sweep, Restart, req_vars
<1>14. ASSUME NEW n \in Nodes, Crash(n) PROVE Handlers'
  BY <1>14, AbsentAssumption DEF Crash, Handlers, TypeOK
<1>15. ASSUME NEW n \in Nodes, NEW id \in Nodes, join(n, id) \/ leave(n, id) PROVE Handlers'
  BY <1>15, <1>u DEF join, leave, req_vars
<1>16. CASE TimePasses
  BY <1>16, <1>u DEF TimePasses, req_vars
<1> HIDE DEF Struct
<1> QED
  BY <1>0, <1>1, <1>2, <1>3, <1>4, <1>5, <1>6, <1>7, <1>8, <1>9, <1>10, <1>11, <1>12,
     <1>13, <1>14, <1>15, <1>16, StepCases, Zenon

\* Every step keeps the walks of GETs within their owners.
LEMMA WalkInOwnersStep ==
    ASSUME Struct, [Next]_vars
    PROVE  WalkInOwners'
<1> USE DEF Struct
<1>0. TypeOK
  OBVIOUS
<1>u. CASE UNCHANGED <<pc, owners, idx>>
  BY <1>u DEF WalkInOwners
<1>1. CASE UNCHANGED vars
  BY <1>1, <1>u DEF vars, req_vars
<1>f. ASSUME NEW r \in Reqs, NEW n \in Nodes, Fanout(r, n) PROVE WalkInOwners'
  <2>1. IsInjective(RingOwners(n))
    BY RingOwnersProperties DEF TypeOK
  <2>2. \A q \in Reqs : IsInjective(owners'[q])
    BY <1>f, <2>1 DEF Fanout, WalkInOwners, TypeOK
  <2> QED
    BY <1>f, <2>2 DEF Fanout, WalkInOwners, TypeOK
<1>2. ASSUME NEW r \in SetReqs, NEW n \in Nodes, NEW at \in Stamps, NEW ttl \in TTLs,
             handleSet(r, n, at, ttl)
      PROVE  WalkInOwners'
  BY <1>2, <1>f DEF handleSet, Reqs
<1>3. ASSUME NEW r \in DelReqs, NEW n \in Nodes, handleDelete(r, n)
      PROVE  WalkInOwners'
  BY <1>3, <1>f DEF handleDelete, Reqs
<1>4. ASSUME NEW r \in GetReqs, NEW n \in Nodes, handleGet(r, n)
      PROVE  WalkInOwners'
  <2>1. IsInjective(RingOwners(n))
    BY RingOwnersProperties DEF TypeOK
  <2>2. \A q \in Reqs : IsInjective(owners'[q])
    BY <1>4, <2>1 DEF handleGet, WalkInOwners, TypeOK
  <2> QED
    BY <1>4, <2>2 DEF handleGet, WalkInOwners, TypeOK
<1>5. ASSUME NEW r \in Reqs, NEW o \in Nodes,
             \/ CollectAck(r, o) \/ CollectErr(r, o)
             \/ ServeWrite(r, o) \/ WriteUnknown(r, o)
      PROVE  WalkInOwners'
  BY <1>5, <1>u DEF CollectAck, CollectErr, ServeWrite, WriteUnknown
<1>6. ASSUME NEW r \in Reqs, FanoutDone(r) \/ WalkEnd(r) PROVE WalkInOwners'
  BY <1>6 DEF FanoutDone, WalkEnd, WalkInOwners, TypeOK
<1>h. ASSUME NEW r \in Reqs, NEW val, NEW at, NEW sb, HitStep(r, val, at, sb), UNCHANGED owners
      PROVE  WalkInOwners'
  BY <1>h DEF HitStep, WalkInOwners, TypeOK
<1>i. ASSUME NEW r \in Reqs, Asking(r), UNCHANGED owners,
             idx' = [idx EXCEPT ![r] = @ + 1], pc' = [pc EXCEPT ![r] = "walk"]
      PROVE  WalkInOwners'
  BY <1>i DEF WalkInOwners, TypeOK
<1>7. ASSUME NEW r \in Reqs, WalkLocal(r) PROVE WalkInOwners'
  <2>1. coord[r] \in Nodes /\ UNCHANGED owners /\ Asking(r)
    BY <1>7, AskedIsOwner DEF WalkLocal, Asking
  <2>3. CASE Live(coord[r])
    BY <1>7, <1>h, <2>1, <2>3, WalkLocalHit
  <2>4. CASE ~Live(coord[r])
    BY <1>7, <1>i, <2>1, <2>4 DEF WalkLocal, Miss
  <2> QED
    BY <2>3, <2>4
<1>8. ASSUME NEW r \in Reqs, WalkSkip(r) \/ WalkUnknown(r) \/ ReadErr(r) PROVE WalkInOwners'
  BY <1>8, <1>i DEF WalkSkip, WalkUnknown, ReadErr, Asking, PassOver
<1>9. ASSUME NEW r \in Reqs, WalkSend(r) PROVE WalkInOwners'
  <2>1. idx[r] \in 1 .. Len(owners[r])
    BY <1>9, AskedIsOwner DEF WalkSend, Asking
  <2> QED
    BY <1>9, <2>1 DEF WalkSend, WalkInOwners, TypeOK
<1>10. ASSUME NEW r \in Reqs, ServeRead(r) PROVE WalkInOwners'
  BY <1>10 DEF ServeRead, WalkInOwners, TypeOK
<1>11. ASSUME NEW r \in Reqs, Recv(r) PROVE WalkInOwners'
  <2>1. Asking(r) /\ UNCHANGED owners
    BY <1>11 DEF Recv, Asking
  <2>3. CASE reply[r] # Absent
    BY <1>11, <1>h, <2>1, <2>3, RecvHit
  <2>4. CASE reply[r] = Absent
    BY <1>11, <1>i, <2>1, <2>4 DEF Recv, Miss
  <2> QED
    BY <2>3, <2>4
<1>12. ASSUME NEW n \in Nodes, Evict(n) \/ Sweep(n) \/ Restart(n) PROVE WalkInOwners'
  BY <1>12, <1>u DEF Evict, Sweep, Restart, req_vars
<1>13. ASSUME NEW n \in Nodes, Crash(n) PROVE WalkInOwners'
  BY <1>13 DEF Crash, WalkInOwners, TypeOK
<1>14. ASSUME NEW n \in Nodes, NEW id \in Nodes, join(n, id) \/ leave(n, id) PROVE WalkInOwners'
  BY <1>14, <1>u DEF join, leave, req_vars
<1>15. CASE TimePasses
  BY <1>15, <1>u DEF TimePasses, req_vars
<1> HIDE DEF Struct
<1> QED
  BY <1>0, <1>1, <1>2, <1>3, <1>4, <1>5, <1>6, <1>7, <1>8, <1>9, <1>10, <1>11, <1>12,
     <1>13, <1>14, <1>15, StepCases, Zenon

\* Every step keeps the wires in order.
LEMMA WiresStep ==
    ASSUME Struct, [Next]_vars
    PROVE  Wires'
<1> USE DEF Struct
<1>0. TypeOK
  OBVIOUS
<1>u. CASE UNCHANGED <<pc, body, wire, verdict>>
  BY <1>u DEF Wires
<1>1. CASE UNCHANGED vars
  BY <1>1, <1>u DEF vars, req_vars
<1>f. ASSUME NEW r \in Reqs, r \notin GetReqs, NEW n \in Nodes, Fanout(r, n),
             r \notin DelReqs => body'[r] # Absent, \A q \in Reqs : q # r => body'[q] = body[q]
      PROVE  Wires'
  <2>1. pc'[r] = "fanout"
    BY <1>f DEF Fanout, TypeOK
  <2>2. \A q \in Reqs : q # r => pc'[q] = pc[q] /\ wire'[q] = wire[q] /\ verdict'[q] = verdict[q]
    BY <1>f DEF Fanout, TypeOK
  <2> QED
    BY <1>f, <2>1, <2>2 DEF Wires
<1>2. ASSUME NEW r \in SetReqs, NEW n \in Nodes, NEW at \in Stamps, NEW ttl \in TTLs,
             handleSet(r, n, at, ttl)
      PROVE  Wires'
  <2>1. r \in Reqs /\ r \notin GetReqs /\ r \notin DelReqs
    BY ReqsAssumption DEF Reqs
  <2>2. [val |-> r, at |-> at, ttl |-> ttl] # Absent
    <3>1. [val |-> r, at |-> at, ttl |-> ttl] \in Body
      BY NumbersAssumption DEF Body
    <3> QED
      BY <3>1, AbsentAssumption
  <2>3. body'[r] # Absent /\ \A q \in Reqs : q # r => body'[q] = body[q]
    BY <1>2, <2>1, <2>2 DEF handleSet, TypeOK
  <2> QED
    BY <1>2, <1>f, <2>1, <2>3 DEF handleSet
<1>3. ASSUME NEW r \in DelReqs, NEW n \in Nodes, handleDelete(r, n)
      PROVE  Wires'
  <2>1. r \in Reqs /\ r \notin GetReqs
    BY ReqsAssumption DEF Reqs
  <2> QED
    BY <1>3, <1>f, <2>1 DEF handleDelete
<1>4. ASSUME NEW r \in GetReqs, NEW n \in Nodes, handleGet(r, n)
      PROVE  Wires'
  BY <1>4 DEF handleGet, Wires, TypeOK
<1>w. ASSUME NEW r \in Reqs, NEW o \in Nodes, NEW x \in {"none", "done"},
             wire[r][o] = "sent", wire' = [wire EXCEPT ![r][o] = x], UNCHANGED <<pc, body>>,
             \A q \in Reqs : q # r => verdict'[q] = verdict[q]
      PROVE  Wires'
  <2>1. pc[r] # "idle" /\ ~(r \in GetReqs /\ pc[r] # "done")
    BY <1>w DEF Wires
  <2>2. \A q \in Reqs, p \in Nodes : wire'[q][p] = wire[q][p] \/ q = r
    BY <1>w DEF TypeOK
  <2>3. \A p \in Nodes : wire'[r][p] # "none" => wire[r][p] # "none"
    BY <1>w DEF TypeOK
  <2> QED
    BY <1>w, <2>1, <2>2, <2>3 DEF Wires
<1>5. ASSUME NEW r \in Reqs, NEW o \in Nodes, CollectAck(r, o) \/ CollectErr(r, o)
      PROVE  Wires'
  <2>1. \A q \in Reqs : q # r => verdict'[q] = verdict[q]
    BY <1>5 DEF CollectAck, CollectErr, TypeOK
  <2>2. pc[r] = "fanout" /\ UNCHANGED <<pc, body, wire>>
    BY <1>5 DEF CollectAck, CollectErr
  <2> QED
    BY <2>1, <2>2 DEF Wires
<1>6. ASSUME NEW r \in Reqs, NEW o \in Nodes,
             ServeWrite(r, o) \/ WriteUnknown(r, o)
      PROVE  Wires'
  <2>1. \A q \in Reqs : q # r => verdict'[q] = verdict[q]
    BY <1>6 DEF ServeWrite, WriteUnknown, TypeOK
  <2>2. /\ wire[r][o] = "sent" /\ UNCHANGED <<pc, body>>
        /\ \E x \in {"none", "done"} : wire' = [wire EXCEPT ![r][o] = x]
    BY <1>6 DEF ServeWrite, WriteUnknown
  <2> QED
    BY <1>w, <2>1, <2>2
<1>7. ASSUME NEW r \in Reqs, FanoutDone(r) \/ WalkEnd(r) \/ WalkSend(r) \/ ServeRead(r)
      PROVE  Wires'
  <2>1. UNCHANGED <<body, wire, verdict>> /\ pc[r] # "idle" /\ pc'[r] # "idle" /\ pc[r] # "done"
    BY <1>7 DEF FanoutDone, WalkEnd, WalkSend, ServeRead, Walking, TypeOK
  <2>2. \A q \in Reqs : q # r => pc'[q] = pc[q]
    BY <1>7 DEF FanoutDone, WalkEnd, WalkSend, ServeRead, TypeOK
  <2> QED
    BY <2>1, <2>2 DEF Wires
<1>h. ASSUME NEW r \in Reqs, NEW val, NEW at, NEW sb, HitStep(r, val, at, sb), pc[r] # "idle",
             UNCHANGED verdict
      PROVE  Wires'
  <2>1. pc'[r] = "done" /\ \A q \in Reqs : q # r => pc'[q] = pc[q]
    BY <1>h DEF HitStep, TypeOK
  <2>2. CASE UNCHANGED <<body, wire>>
    BY <1>h, <2>1, <2>2 DEF Wires
  <2>3. ASSUME NEW b \in Body, body' = [body EXCEPT ![r] = b],
               wire' = [wire EXCEPT ![r] =
                          [o \in Nodes |-> IF o \in OwnerSet(r) \ {sb} THEN "sent" ELSE "none"]]
        PROVE  Wires'
    <3>1. b # Absent
      BY AbsentAssumption
    <3>2. body'[r] = b /\ \A q \in Reqs : q # r => body'[q] = body[q] /\ wire'[q] = wire[q]
      BY <2>3 DEF TypeOK
    <3> QED
      BY <1>h, <2>1, <3>1, <3>2 DEF Wires
  <2> QED
    BY <1>h, <2>2, <2>3 DEF HitStep
<1>i. ASSUME NEW r \in Reqs, Asking(r), UNCHANGED <<body, wire, verdict>>,
             pc' = [pc EXCEPT ![r] = "walk"]
      PROVE  Wires'
  <2>1. pc[r] # "idle" /\ pc[r] # "done" /\ pc'[r] = "walk"
    BY <1>i DEF Asking, Walking, TypeOK
  <2>2. \A q \in Reqs : q # r => pc'[q] = pc[q]
    BY <1>i DEF TypeOK
  <2> QED
    BY <1>i, <2>1, <2>2 DEF Wires
<1>8. ASSUME NEW r \in Reqs, WalkLocal(r) PROVE Wires'
  <2>1. coord[r] \in Nodes /\ UNCHANGED verdict /\ Asking(r) /\ pc[r] # "idle"
    BY <1>8, AskedIsOwner DEF WalkLocal, Asking, Walking
  <2>3. CASE Live(coord[r])
    BY <1>8, <1>h, <2>1, <2>3, WalkLocalHit
  <2>4. CASE ~Live(coord[r])
    BY <1>8, <1>i, <2>1, <2>4 DEF WalkLocal, Miss
  <2> QED
    BY <2>3, <2>4
<1>9. ASSUME NEW r \in Reqs, WalkSkip(r) \/ WalkUnknown(r) \/ ReadErr(r) PROVE Wires'
  BY <1>9, <1>i DEF WalkSkip, WalkUnknown, ReadErr, Asking, PassOver
<1>10. ASSUME NEW r \in Reqs, Recv(r) PROVE Wires'
  <2>1. Asking(r) /\ UNCHANGED verdict /\ pc[r] # "idle"
    BY <1>10 DEF Recv, Asking
  <2>3. CASE reply[r] # Absent
    BY <1>10, <1>h, <2>1, <2>3, RecvHit
  <2>4. CASE reply[r] = Absent
    BY <1>10, <1>i, <2>1, <2>4 DEF Recv, Miss
  <2> QED
    BY <2>3, <2>4
<1>11. ASSUME NEW n \in Nodes, Evict(n) \/ Sweep(n) \/ Restart(n) PROVE Wires'
  BY <1>11, <1>u DEF Evict, Sweep, Restart, req_vars
<1>12. ASSUME NEW n \in Nodes, Crash(n) PROVE Wires'
  <2>1. \A r \in Reqs, o \in Nodes : wire'[r][o] # "none" => wire[r][o] # "none"
    BY <1>12 DEF Crash, TypeOK
  <2>2. \A r \in Reqs, o \in Nodes : verdict'[r][o] = verdict[r][o] \/ verdict'[r][o] = "none"
    BY <1>12 DEF Crash, TypeOK
  <2>3. \A r \in Reqs : /\ pc'[r] = "idle" => pc[r] = "idle"
                        /\ pc'[r] # "done" => pc[r] # "done"
    BY <1>12 DEF Crash, TypeOK
  <2>4. UNCHANGED body
    BY <1>12 DEF Crash
  <2> QED
    BY <2>1, <2>2, <2>3, <2>4 DEF Wires
<1>13. ASSUME NEW n \in Nodes, NEW id \in Nodes, join(n, id) \/ leave(n, id) PROVE Wires'
  BY <1>13, <1>u DEF join, leave, req_vars
<1>14. CASE TimePasses
  BY <1>14, <1>u DEF TimePasses, req_vars
<1> HIDE DEF Struct
<1> QED
  BY <1>0, <1>1, <1>2, <1>3, <1>4, <1>5, <1>6, <1>7, <1>8, <1>9, <1>10, <1>11, <1>12,
     <1>13, <1>14, StepCases, Zenon

\* Struct holds at the start.
LEMMA StructInit ==
    ASSUME Init
    PROVE  Struct
<1>0. <<>> \in Seq(Nodes) /\ Len(<<>>) = 0 /\ IsInjective(<<>>)
  BY DEF IsInjective
<1>1. TypeOK
  BY <1>0, PeersAssumption DEF Init, TypeOK
<1>2. WalkInOwners
  BY <1>0 DEF Init, WalkInOwners
<1>3. Handlers /\ Wires
  BY DEF Init, Handlers, Wires
<1> QED
  BY <1>1, <1>2, <1>3 DEF Struct

\* Struct is inductive.
LEMMA StructStep ==
    ASSUME Struct, [Next]_vars
    PROVE  Struct'
BY TypeStep, HandlersStep, WalkInOwnersStep, WiresStep DEF Struct
----------------------------------------------------------------------------
(* What a step can do to requests, stores and wires. *)

\* The same value with the same stamp.
Alike(x, y) == x.val = y.val /\ x.at = y.at

\* What a request has settled does not change: its owners and its coordinator
\* once it has begun, the value of a SET, and everything the client of a GET
\* gets once it has ended.
RequestsKeep ==
    \A r \in Reqs : pc[r] # "idle" =>
        /\ pc'[r] # "idle"
        /\ owners'[r] = owners[r] /\ coord'[r] = coord[r] /\ before'[r] = before[r]
        /\ r \in SetReqs => body'[r] = body[r]
        /\ pc[r] = "done" => /\ pc'[r] = "done"
                             /\ body'[r] = body[r] /\ reply'[r] = reply[r] /\ code'[r] = code[r]
                             /\ idx'[r] = idx[r] /\ unheard'[r] = unheard[r]

\* Every step keeps what requests have settled.
LEMMA RequestsKeepStep ==
    ASSUME Struct, [Next]_vars
    PROVE  RequestsKeep
<1> USE DEF Struct
<1>0. TypeOK
  OBVIOUS
<1>u. CASE UNCHANGED <<pc, coord, owners, body, reply, code, idx, before, unheard>>
  BY <1>u DEF RequestsKeep
<1>1. CASE UNCHANGED vars
  BY <1>1, <1>u DEF vars, req_vars, hist
<1>2. ASSUME NEW r \in SetReqs, NEW n \in Nodes, NEW at \in Stamps, NEW ttl \in TTLs,
             handleSet(r, n, at, ttl)
      PROVE  RequestsKeep
  BY <1>2 DEF handleSet, Fanout, RequestsKeep, TypeOK
<1>3. ASSUME NEW r \in DelReqs, NEW n \in Nodes, handleDelete(r, n)
      PROVE  RequestsKeep
  BY <1>3 DEF handleDelete, Fanout, RequestsKeep, TypeOK
<1>4. ASSUME NEW r \in GetReqs, NEW n \in Nodes, handleGet(r, n)
      PROVE  RequestsKeep
  BY <1>4 DEF handleGet, RequestsKeep, TypeOK
<1>5. ASSUME NEW r \in Reqs, NEW o \in Nodes,
             \/ CollectAck(r, o) \/ CollectErr(r, o)
             \/ ServeWrite(r, o) \/ WriteUnknown(r, o)
      PROVE  RequestsKeep
  BY <1>5, <1>u DEF CollectAck, CollectErr, ServeWrite, WriteUnknown, hist
<1>6. ASSUME NEW r \in Reqs, FanoutDone(r) \/ WalkEnd(r) PROVE RequestsKeep
  BY <1>6 DEF FanoutDone, WalkEnd, hist, RequestsKeep, TypeOK
<1>h. ASSUME NEW r \in GetReqs, NEW val, NEW at, NEW sb, HitStep(r, val, at, sb), pc[r] # "done",
             UNCHANGED <<coord, owners, before, unheard>>
      PROVE  RequestsKeep
  <2>1. r \in Reqs /\ r \notin SetReqs
    BY ReqsAssumption DEF Reqs
  <2>2. pc'[r] = "done" /\ UNCHANGED idx
    BY <1>h, <2>1 DEF HitStep, TypeOK
  <2>3. \A q \in Reqs : q # r => /\ pc'[q] = pc[q] /\ body'[q] = body[q]
                                 /\ reply'[q] = reply[q] /\ code'[q] = code[q]
    BY <1>h DEF HitStep, TypeOK
  <2> QED
    BY <1>h, <2>1, <2>2, <2>3 DEF RequestsKeep
<1>i. ASSUME NEW r \in GetReqs, pc[r] # "done", pc'[r] # "idle",
             UNCHANGED <<coord, owners, before, body>>,
             \A q \in Reqs : q # r => /\ pc'[q] = pc[q] /\ idx'[q] = idx[q] /\ reply'[q] = reply[q]
                                      /\ code'[q] = code[q] /\ unheard'[q] = unheard[q]
      PROVE  RequestsKeep
  BY <1>i DEF RequestsKeep
<1>7. ASSUME NEW r \in Reqs, WalkLocal(r) PROVE RequestsKeep
  <2>1. /\ coord[r] \in Nodes /\ r \in GetReqs /\ pc[r] # "done"
        /\ UNCHANGED <<coord, owners, before, unheard>>
    BY <1>7, AskedIsOwner DEF WalkLocal, Asking, Walking
  <2>3. CASE Live(coord[r])
    BY <1>7, <1>h, <2>1, <2>3, WalkLocalHit
  <2>4. CASE ~Live(coord[r])
    <3>1. Miss(r)
      BY <1>7, <2>4 DEF WalkLocal
    <3> QED
      BY <1>i, <2>1, <3>1 DEF Miss, TypeOK
  <2> QED
    BY <2>3, <2>4
<1>8. ASSUME NEW r \in Reqs, WalkSkip(r) \/ WalkUnknown(r) \/ ReadErr(r) PROVE RequestsKeep
  <2>1. Asking(r) /\ PassOver(r)
    BY <1>8 DEF WalkSkip, WalkUnknown, ReadErr, Asking
  <2>2. r \in GetReqs /\ pc[r] # "done"
    BY <2>1, AskedIsOwner DEF Asking, Walking
  <2> QED
    BY <1>i, <2>1, <2>2 DEF PassOver, TypeOK
<1>9. ASSUME NEW r \in Reqs, WalkSend(r) \/ ServeRead(r) PROVE RequestsKeep
  <2>1. r \in GetReqs /\ pc[r] # "done"
    BY <1>9 DEF WalkSend, ServeRead, Walking, Handlers
  <2> QED
    <3>1. CASE WalkSend(r)
      BY <1>i, <2>1, <3>1 DEF WalkSend, hist, TypeOK
    <3>2. CASE ServeRead(r)
      BY <1>i, <2>1, <3>2 DEF ServeRead, TypeOK
    <3> QED
      BY <1>9, <3>1, <3>2
<1>10. ASSUME NEW r \in Reqs, Recv(r) PROVE RequestsKeep
  <2>1. r \in GetReqs /\ pc[r] # "done" /\ UNCHANGED <<coord, owners, before, unheard>>
    BY <1>10 DEF Recv, hist, Handlers
  <2>3. CASE reply[r] # Absent
    BY <1>10, <1>h, <2>1, <2>3, RecvHit
  <2>4. CASE reply[r] = Absent
    <3>1. Miss(r)
      BY <1>10, <2>4 DEF Recv
    <3> QED
      BY <1>i, <2>1, <3>1 DEF Miss, TypeOK
  <2> QED
    BY <2>3, <2>4
<1>11. ASSUME NEW n \in Nodes, Evict(n) \/ Sweep(n) \/ Restart(n) PROVE RequestsKeep
  BY <1>11, <1>u DEF Evict, Sweep, Restart, req_vars, hist
<1>12. ASSUME NEW n \in Nodes, Crash(n) PROVE RequestsKeep
  BY <1>12 DEF Crash, RequestsKeep, TypeOK
<1>13. ASSUME NEW n \in Nodes, NEW id \in Nodes, join(n, id) \/ leave(n, id) PROVE RequestsKeep
  BY <1>13, <1>u DEF join, leave, req_vars, hist
<1>14. CASE TimePasses
  BY <1>14, <1>u DEF TimePasses, req_vars, hist
<1> HIDE DEF Struct
<1> QED
  BY <1>0, <1>1, <1>2, <1>3, <1>4, <1>5, <1>6, <1>7, <1>8, <1>9, <1>10, <1>11, <1>12,
     <1>13, <1>14, StepCases, Zenon

\* A store changes only by losing its entry, which wiped records, or by a write
\* on the wire that is not older than what it holds.
StoresMove ==
    \A n \in Nodes :
        \/ store'[n] = store[n]
        \/ store'[n] = Absent /\ wiped'
        \/ \E r \in Reqs \ DelReqs :
              /\ wire[r][n] = "sent" /\ body[r] # Absent
              /\ store'[n] # Absent /\ Alike(store'[n], body[r])
              /\ store[n] # Absent => store[n].at <= body[r].at

\* A write counts as served once the store has it or something newer.
WiresMove ==
    \A r \in Reqs, o \in Nodes : wire'[r][o] = "done" =>
        \/ wire[r][o] = "done"
        \/ /\ wire[r][o] = "sent" /\ body'[r] = body[r]
           /\ r \notin DelReqs => store'[o] # Absent /\ store'[o].at >= body[r].at

\* Every step does to stores and wires what they say.
LEMMA StoresMoveStep ==
    ASSUME Struct, [Next]_vars
    PROVE  StoresMove /\ WiresMove /\ (wiped => wiped')
<1> USE DEF Struct
<1> DEFINE Goal == StoresMove /\ WiresMove /\ (wiped => wiped')
<1>0. TypeOK
  OBVIOUS
<1>v. ASSUME UNCHANGED wire PROVE WiresMove
  BY <1>v DEF WiresMove
<1>u. ASSUME UNCHANGED <<store, wiped>>, WiresMove PROVE Goal
  BY <1>u DEF StoresMove
<1>g. ASSUME NEW n \in Nodes, StoreGet(n), WiresMove
      PROVE  Goal
  <2>1. \A m \in Nodes : store'[m] = store[m] \/ (store'[m] = Absent /\ wiped')
    BY <1>g, StoreGetEffect
  <2>2. wiped => wiped'
    BY <1>g, StoreGetEffect
  <2> QED
    BY <1>g, <2>1, <2>2 DEF StoresMove
<1>1. ASSUME UNCHANGED vars PROVE Goal
  BY <1>1, <1>u, <1>v DEF vars, req_vars, hist
<1>f. ASSUME NEW r \in Reqs, NEW n \in Nodes, Fanout(r, n) PROVE Goal
  <2>1. \A q \in Reqs, o \in Nodes : wire'[q][o] = "done" => wire[q][o] = "done"
    BY <1>f DEF Fanout, TypeOK
  <2>2. WiresMove
    BY <2>1 DEF WiresMove
  <2> QED
    BY <1>f, <1>u, <2>2 DEF Fanout
<1>2. ASSUME NEW r \in SetReqs, NEW n \in Nodes, NEW at \in Stamps, NEW ttl \in TTLs,
             handleSet(r, n, at, ttl)
      PROVE  Goal
  BY <1>2, <1>f DEF handleSet, Reqs
<1>3. ASSUME NEW r \in DelReqs, NEW n \in Nodes, handleDelete(r, n)
      PROVE  Goal
  BY <1>3, <1>f DEF handleDelete, Reqs
<1>4. ASSUME NEW r \in GetReqs, NEW n \in Nodes, handleGet(r, n)
      PROVE  Goal
  BY <1>4, <1>u, <1>v DEF handleGet
<1>5. ASSUME NEW r \in Reqs, NEW o \in Nodes, CollectAck(r, o) \/ CollectErr(r, o)
      PROVE  Goal
  BY <1>5, <1>u, <1>v DEF CollectAck, CollectErr, hist
<1>6. ASSUME NEW r \in Reqs, NEW o \in Nodes, WriteUnknown(r, o)
      PROVE  Goal
  <2>1. \A q \in Reqs, p \in Nodes : wire'[q][p] = "done" => wire[q][p] = "done"
    <3>1. wire' = [wire EXCEPT ![r][o] = "none"]
      BY <1>6 DEF WriteUnknown
    <3> QED
      BY <3>1 DEF TypeOK
  <2>2. WiresMove
    BY <2>1 DEF WiresMove
  <2> QED
    BY <1>6, <1>u, <2>2 DEF WriteUnknown, hist
<1>7. ASSUME NEW r \in Reqs, NEW o \in Nodes, ServeWrite(r, o)
      PROVE  Goal
  <2>1. \A q \in Reqs, p \in Nodes : (q # r \/ p # o) => wire'[q][p] = wire[q][p]
    BY <1>7 DEF ServeWrite, TypeOK
  <2>2. wire[r][o] = "sent" /\ body' = body
    BY <1>7 DEF ServeWrite
  <2>3. CASE r \in DelReqs
    <3>1. store' = [store EXCEPT ![o] = Absent] /\ wiped' = TRUE
      BY <1>7, <2>3 DEF ServeWrite
    <3>2. \A m \in Nodes : store'[m] = store[m] \/ store'[m] = Absent
      BY <3>1 DEF TypeOK
    <3>3. StoresMove
      BY <3>1, <3>2 DEF StoresMove
    <3>4. WiresMove
      BY <2>1, <2>2, <2>3 DEF WiresMove
    <3> QED
      BY <3>1, <3>3, <3>4
  <2>4. CASE r \notin DelReqs
    <3>1. StoreSet(o, r) /\ wiped' = wiped /\ body[r] # Absent
      BY <1>7, <2>2, <2>4 DEF ServeWrite, Wires
    <3>2. body[r].at \in Nat /\ (store[o] # Absent => store[o].at \in Nat)
      <4>1. body[r] \in Body /\ (store[o] # Absent => store[o] \in Entry)
        BY <3>1 DEF TypeOK
      <4> QED
        BY <4>1, NumbersAssumption DEF Body, Entry
    <3>3. /\ \A m \in Nodes : m # o => store'[m] = store[m]
          /\ \/ /\ store' = store
                /\ store[o] # Absent /\ store[o].at > body[r].at
             \/ /\ store'[o] # Absent /\ Alike(store'[o], body[r])
                /\ store[o] # Absent => ~(store[o].at > body[r].at)
      BY <3>1, StoreSetEffect DEF Alike
    <3>4. StoresMove
      BY <2>2, <2>4, <3>1, <3>2, <3>3 DEF StoresMove
    <3>5. store'[o] # Absent /\ store'[o].at >= body[r].at
      BY <3>2, <3>3 DEF Alike
    <3>6. WiresMove
      BY <2>1, <2>2, <3>5 DEF WiresMove
    <3> QED
      BY <3>1, <3>4, <3>6
  <2> QED
    BY <2>3, <2>4
<1>8. ASSUME NEW r \in Reqs, FanoutDone(r) \/ WalkEnd(r) \/ WalkSend(r) PROVE Goal
  BY <1>8, <1>u, <1>v DEF FanoutDone, WalkEnd, WalkSend, hist
<1>h. ASSUME NEW r \in Reqs, NEW val, NEW at, NEW sb, HitStep(r, val, at, sb)
      PROVE  WiresMove
  <2>1. \A q \in Reqs, o \in Nodes : wire'[q][o] = "done" => wire[q][o] = "done"
    <3>1. CASE UNCHANGED wire
      BY <3>1
    <3>2. CASE wire' = [wire EXCEPT ![r] =
                          [o \in Nodes |-> IF o \in OwnerSet(r) \ {sb} THEN "sent" ELSE "none"]]
      BY <3>2 DEF TypeOK
    <3> QED
      BY <1>h, <3>1, <3>2 DEF HitStep
  <2> QED
    BY <2>1 DEF WiresMove
<1>9. ASSUME NEW r \in Reqs, WalkLocal(r) PROVE Goal
  <2>1. coord[r] \in Nodes /\ StoreGet(coord[r])
    BY <1>9, AskedIsOwner DEF WalkLocal, Asking
  <2>2. WiresMove
    <3>1. CASE Live(coord[r])
      BY <1>9, <1>h, <2>1, <3>1, WalkLocalHit
    <3>2. CASE ~Live(coord[r])
      BY <1>9, <1>v, <3>2 DEF WalkLocal, Miss
    <3> QED
      BY <3>1, <3>2
  <2> QED
    BY <1>g, <2>1, <2>2
<1>10. ASSUME NEW r \in Reqs, WalkSkip(r) \/ WalkUnknown(r) \/ ReadErr(r) PROVE Goal
  BY <1>10, <1>u, <1>v DEF WalkSkip, WalkUnknown, ReadErr, PassOver
<1>11. ASSUME NEW r \in Reqs, ServeRead(r) PROVE Goal
  <2>1. Target(r) \in Nodes /\ StoreGet(Target(r)) /\ UNCHANGED wire
    BY <1>11, AskedIsOwner DEF ServeRead, Asking
  <2> QED
    BY <1>g, <1>v, <2>1
<1>12. ASSUME NEW r \in Reqs, Recv(r) PROVE Goal
  <2>1. WiresMove
    <3>1. CASE reply[r] # Absent
      BY <1>12, <1>h, <3>1, RecvHit
    <3>2. CASE reply[r] = Absent
      BY <1>12, <1>v, <3>2 DEF Recv, Miss
    <3> QED
      BY <3>1, <3>2
  <2> QED
    BY <1>12, <1>u, <2>1 DEF Recv, hist
<1>13. ASSUME NEW n \in Nodes, Evict(n) PROVE Goal
  <2>1. store' = [store EXCEPT ![n] = Absent] /\ wiped' = TRUE /\ UNCHANGED wire
    BY <1>13 DEF Evict, req_vars
  <2>2. \A m \in Nodes : store'[m] = store[m] \/ store'[m] = Absent
    BY <2>1 DEF TypeOK
  <2> QED
    BY <1>v, <2>1, <2>2 DEF StoresMove
<1>14. ASSUME NEW n \in Nodes, Sweep(n) PROVE Goal
  BY <1>14, <1>g, <1>v DEF Sweep, req_vars
<1>15. ASSUME NEW n \in Nodes, Crash(n) PROVE Goal
  <2>1. store' = [store EXCEPT ![n] = Absent] /\ wiped' = (wiped \/ store[n] # Absent)
    BY <1>15 DEF Crash
  <2>2. \A m \in Nodes : store'[m] = store[m] \/ (m = n /\ store'[m] = Absent)
    BY <2>1 DEF TypeOK
  <2>3. (wiped => wiped') /\ (store[n] # Absent => wiped')
    BY <2>1, Zenon
  <2>4. StoresMove
    BY <2>2, <2>3 DEF StoresMove
  <2>5. \A q \in Reqs, o \in Nodes : wire'[q][o] = "done" => wire[q][o] = "done"
    BY <1>15 DEF Crash, TypeOK
  <2> QED
    BY <2>3, <2>4, <2>5 DEF WiresMove
<1>16. ASSUME NEW n \in Nodes, Restart(n) PROVE Goal
  BY <1>16, <1>u, <1>v DEF Restart, req_vars, hist
<1>17. ASSUME NEW n \in Nodes, NEW id \in Nodes, join(n, id) \/ leave(n, id) PROVE Goal
  BY <1>17, <1>u, <1>v DEF join, leave, req_vars, hist
<1>18. ASSUME TimePasses PROVE Goal
  BY <1>18, <1>u, <1>v DEF TimePasses, req_vars, hist
<1> HIDE DEF Struct, Goal
<1>19. Goal
  BY <1>0, <1>1, <1>2, <1>3, <1>4, <1>5, <1>6, <1>7, <1>8, <1>9, <1>10, <1>11, <1>12,
     <1>13, <1>14, <1>15, <1>16, <1>17, <1>18, StepCases, Zenon
<1> QED
  BY <1>19 DEF Goal

\* A reply comes from a store or was there before; a body is a client's SET or
\* the repair of what was replied.
RepliesMove ==
    \A r \in Reqs :
        /\ reply'[r] # Absent =>
              \/ reply[r] # Absent /\ Alike(reply'[r], reply[r])
              \/ \E n \in Nodes : store[n] # Absent /\ Alike(reply'[r], store[n])
        /\ \/ body'[r] = body[r]
           \/ r \in SetReqs /\ body'[r].val = r /\ pc'[r] # "idle"
           \/ reply'[r] # Absent /\ Alike(body'[r], reply'[r])

\* Every step does to replies and bodies what it says.
LEMMA RepliesMoveStep ==
    ASSUME Struct, [Next]_vars
    PROVE  RepliesMove
<1> USE DEF Struct
<1>0. TypeOK
  OBVIOUS
<1>u. CASE UNCHANGED <<reply, body>>
  BY <1>u DEF RepliesMove, Alike
<1>1. CASE UNCHANGED vars
  BY <1>1, <1>u DEF vars, req_vars
<1>2. ASSUME NEW r \in SetReqs, NEW n \in Nodes, NEW at \in Stamps, NEW ttl \in TTLs,
             handleSet(r, n, at, ttl)
      PROVE  RepliesMove
  BY <1>2 DEF handleSet, Fanout, RepliesMove, Alike, Reqs, TypeOK
<1>3. ASSUME NEW r \in DelReqs, NEW n \in Nodes, handleDelete(r, n)
      PROVE  RepliesMove
  BY <1>3, <1>u DEF handleDelete, Fanout
<1>4. ASSUME NEW r \in GetReqs, NEW n \in Nodes, handleGet(r, n)
      PROVE  RepliesMove
  BY <1>4, <1>u DEF handleGet
<1>5. ASSUME NEW r \in Reqs, NEW o \in Nodes,
             \/ CollectAck(r, o) \/ CollectErr(r, o)
             \/ ServeWrite(r, o) \/ WriteUnknown(r, o)
      PROVE  RepliesMove
  BY <1>5, <1>u DEF CollectAck, CollectErr, ServeWrite, WriteUnknown
<1>6. ASSUME NEW r \in Reqs, FanoutDone(r) \/ WalkEnd(r) \/ WalkSend(r) PROVE RepliesMove
  BY <1>6, <1>u DEF FanoutDone, WalkEnd, WalkSend
<1>h. ASSUME NEW r \in Reqs, NEW x, NEW sb, HitStep(r, x.val, x.at, sb),
             \/ reply[r] # Absent /\ Alike(x, reply[r])
             \/ \E n \in Nodes : store[n] # Absent /\ Alike(x, store[n])
      PROVE  RepliesMove
  <2>1. PICK g \in Reply : Alike(g, x) /\ reply' = [reply EXCEPT ![r] = g]
    BY <1>h DEF HitStep, Alike
  <2>2. g # Absent
    BY AbsentAssumption
  <2>3. reply'[r] = g /\ \A q \in Reqs : q # r => reply'[q] = reply[q]
    BY <2>1 DEF TypeOK
  <2>4. /\ body'[r] = body[r] \/ Alike(body'[r], x)
        /\ \A q \in Reqs : q # r => body'[q] = body[q]
    <3>1. body \in [Reqs -> Body \cup {Absent}]
      BY DEF TypeOK
    <3>2. CASE UNCHANGED <<body, wire>>
      BY <3>2
    <3>3. ASSUME NEW b \in Body, b.val = x.val, b.at = x.at, body' = [body EXCEPT ![r] = b]
          PROVE  Alike(body'[r], x) /\ \A q \in Reqs : q # r => body'[q] = body[q]
      BY <3>1, <3>3 DEF Alike
    <3> QED
      BY <1>h, <3>2, <3>3 DEF HitStep
  <2> QED
    BY <1>h, <2>1, <2>2, <2>3, <2>4 DEF RepliesMove, Alike
<1>7. ASSUME NEW r \in Reqs, WalkLocal(r) PROVE RepliesMove
  <2>1. coord[r] \in Nodes
    BY <1>7, AskedIsOwner DEF WalkLocal, Asking
  <2>3. CASE Live(coord[r])
    BY <1>7, <1>h, <2>1, <2>3, WalkLocalHit DEF Alike, Live
  <2>4. CASE ~Live(coord[r])
    BY <1>7, <1>u, <2>4 DEF WalkLocal, Miss
  <2> QED
    BY <2>3, <2>4
<1>8. ASSUME NEW r \in Reqs, WalkSkip(r) \/ WalkUnknown(r) \/ ReadErr(r) PROVE RepliesMove
  <2>1. PassOver(r)
    BY <1>8 DEF WalkSkip, WalkUnknown, ReadErr
  <2> QED
    BY <2>1 DEF PassOver, RepliesMove, Alike, TypeOK
<1>9. ASSUME NEW r \in Reqs, ServeRead(r) PROVE RepliesMove
  <2>1. PICK t \in Nodes : t = Target(r)
    BY <1>9, AskedIsOwner DEF ServeRead, Asking
  <2>2. /\ reply' = [reply EXCEPT ![r] = IF Live(t) THEN getPayload(store[t]) ELSE Absent]
        /\ UNCHANGED body
    BY <1>9, <2>1 DEF ServeRead
  <2>3. Live(t) => store[t] # Absent /\ Alike(getPayload(store[t]), store[t])
    BY LiveIsFresh, PayloadType DEF Live, Alike
  <2> QED
    BY <2>2, <2>3 DEF RepliesMove, Alike, TypeOK
<1>10. ASSUME NEW r \in Reqs, Recv(r) PROVE RepliesMove
  <2>3. CASE reply[r] # Absent
    BY <1>10, <1>h, <2>3, RecvHit DEF Alike
  <2>4. CASE reply[r] = Absent
    BY <1>10, <1>u, <2>4 DEF Recv, Miss
  <2> QED
    BY <2>3, <2>4
<1>11. ASSUME NEW n \in Nodes, Evict(n) \/ Sweep(n) \/ Crash(n) \/ Restart(n) PROVE RepliesMove
  BY <1>11, <1>u DEF Evict, Sweep, Crash, Restart, req_vars
<1>12. ASSUME NEW n \in Nodes, NEW id \in Nodes, join(n, id) \/ leave(n, id) PROVE RepliesMove
  BY <1>12, <1>u DEF join, leave, req_vars
<1>13. CASE TimePasses
  BY <1>13, <1>u DEF TimePasses, req_vars
<1> HIDE DEF Struct
<1> QED
  BY <1>0, <1>1, <1>2, <1>3, <1>4, <1>5, <1>6, <1>7, <1>8, <1>9, <1>10, <1>11, <1>12,
     <1>13, StepCases, Zenon
----------------------------------------------------------------------------
(* Types, provenance, last writer wins. *)

\* Every reachable state of the data plane has the types that TypeOK gives it:
\* no handler runs past the end of its owners, reads a body that was never
\* built or sends a TTL that is not a number of milliseconds.
THEOREM TypeCorrect == Spec => []TypeOK
<1>1. Init => Struct
  BY StructInit
<1>2. Struct /\ [Next]_vars => Struct'
  BY StructStep
<1>3. Struct => TypeOK
  BY DEF Struct
<1> QED
  BY <1>1, <1>2, <1>3, PTL DEF Spec

\* Last writer wins on every replica: no step of any handler, repair or late
\* write takes the stamp that a node holds back.
THEOREM LastWriterWins == Spec => StampsNeverGoBack
<1>1. Init => Struct
  BY StructInit
<1>2. Struct /\ [Next]_vars => Struct'
  BY StructStep
<1>3. Struct /\ [Next]_vars =>
        [\A n \in Nodes : store[n] # Absent /\ store'[n] # Absent => store'[n].at >= store[n].at]_vars
  <2> SUFFICES ASSUME Struct, [Next]_vars, NEW n \in Nodes, store[n] # Absent, store'[n] # Absent
               PROVE  store'[n].at >= store[n].at
    OBVIOUS
  <2>1. store[n].at \in Nat
    <3>1. store[n] \in Entry
      BY DEF Struct, TypeOK
    <3> QED
      BY <3>1, NumbersAssumption DEF Entry
  <2>2. CASE store'[n] = store[n]
    BY <2>1, <2>2
  <2>3. ASSUME NEW r \in Reqs \ DelReqs, body[r] # Absent, Alike(store'[n], body[r]),
               store[n].at <= body[r].at
        PROVE  store'[n].at >= store[n].at
    <3>1. body[r] \in Body
      BY <2>3 DEF Struct, TypeOK
    <3>2. body[r].at \in Nat
      BY <3>1, NumbersAssumption DEF Body
    <3> QED
      BY <2>1, <2>3, <3>2 DEF Alike
  <2> QED
    BY <2>2, <2>3, StoresMoveStep DEF StoresMove
<1> QED
  BY <1>1, <1>2, <1>3, PTL DEF Spec, StampsNeverGoBack

\* A value with the stamp that the client gave it.
Genuine(x) == x.at = body[x.val].at /\ pc[x.val] # "idle"

\* The same after a step.
StillGenuine(x) == x.at = body'[x.val].at /\ pc'[x.val] # "idle"

\* What was genuine stays so.
LEMMA GenuineStays ==
    ASSUME Struct, [Next]_vars
    PROVE  \A x : x.val \in SetReqs /\ Genuine(x) => StillGenuine(x)
<1>1. \A s \in SetReqs : s \in Reqs
  BY DEF Reqs
<1> QED
  BY <1>1, RequestsKeepStep DEF RequestsKeep, Genuine, StillGenuine

\* Provenance is inductive.
LEMMA ProvenanceStep ==
    ASSUME Struct, Provenance, [Next]_vars
    PROVE  Provenance'
<1>0. /\ \A n \in Nodes : store[n] # Absent => store[n].val \in SetReqs /\ Genuine(store[n])
      /\ \A r \in Reqs : body[r] # Absent => body[r].val \in SetReqs /\ Genuine(body[r])
      /\ \A r \in Reqs : reply[r] # Absent => reply[r].val \in SetReqs /\ Genuine(reply[r])
  BY DEF Provenance, Genuine, Struct, TypeOK, Entry, Body, Reply
<1>a. \A x, y : Alike(x, y) /\ StillGenuine(y) => StillGenuine(x)
  BY DEF Alike, StillGenuine
<1>1. ASSUME NEW n \in Nodes, store'[n] # Absent PROVE StillGenuine(store'[n])
  <2>1. CASE store'[n] = store[n]
    BY <1>0, <1>1, <2>1, GenuineStays
  <2>2. ASSUME NEW r \in Reqs \ DelReqs, body[r] # Absent, Alike(store'[n], body[r])
        PROVE  StillGenuine(store'[n])
    BY <1>0, <1>a, <2>2, GenuineStays
  <2> QED
    BY <1>1, <2>1, <2>2, StoresMoveStep DEF StoresMove
<1>2. ASSUME NEW r \in Reqs, reply'[r] # Absent PROVE StillGenuine(reply'[r])
  <2>1. CASE reply[r] # Absent /\ Alike(reply'[r], reply[r])
    BY <1>0, <1>a, <2>1, GenuineStays
  <2>2. ASSUME NEW n \in Nodes, store[n] # Absent, Alike(reply'[r], store[n])
        PROVE  StillGenuine(reply'[r])
    BY <1>0, <1>a, <2>2, GenuineStays
  <2> QED
    BY <1>2, <2>1, <2>2, RepliesMoveStep DEF RepliesMove
<1>3. ASSUME NEW r \in Reqs, body'[r] # Absent PROVE StillGenuine(body'[r])
  <2>1. CASE body'[r] = body[r]
    BY <1>0, <1>3, <2>1, GenuineStays
  <2>2. CASE r \in SetReqs /\ body'[r].val = r /\ pc'[r] # "idle"
    BY <2>2 DEF StillGenuine
  <2>3. CASE reply'[r] # Absent /\ Alike(body'[r], reply'[r])
    BY <1>2, <1>a, <2>3
  <2> QED
    BY <2>1, <2>2, <2>3, RepliesMoveStep DEF RepliesMove
<1> QED
  BY <1>1, <1>2, <1>3 DEF Provenance, StillGenuine

\* Whatever a replica holds, sends or answers is a value that a client wrote,
\* with the stamp the client's SET gave it.
THEOREM ProvenanceHolds == Spec => []Provenance
<1>1. Init => Struct /\ Provenance
  <2> SUFFICES ASSUME Init PROVE Struct /\ Provenance
    OBVIOUS
  <2>1. Provenance
    BY DEF Init, Provenance
  <2> QED
    BY <2>1, StructInit
<1>2. Struct /\ Provenance /\ [Next]_vars => Struct' /\ Provenance'
  BY StructStep, ProvenanceStep
<1> QED
  BY <1>1, <1>2, PTL DEF Spec
----------------------------------------------------------------------------
(* The breaker. *)

\* The clock starts at 1: no failure is at time 0.
ClockRuns == now >= 1

\* markDown and the record of the reason for it go together, and a peer that is
\* marked down again by a skip was marked down before.
LEMMA SkippedStep ==
    ASSUME Struct, ClockRuns, SkippedOnlyAfterError, [Next]_vars
    PROVE  ClockRuns' /\ SkippedOnlyAfterError'
<1> USE DEF Struct
<1> DEFINE Goal == ClockRuns' /\ SkippedOnlyAfterError'
<1>0. TypeOK
  OBVIOUS
<1>u. ASSUME UNCHANGED <<now, downUntil, lastErr, nameless>> PROVE Goal
  BY <1>u DEF ClockRuns, SkippedOnlyAfterError
<1>1. ASSUME UNCHANGED vars PROVE Goal
  BY <1>1, <1>u DEF vars, hist
<1>2. ASSUME NEW r \in SetReqs, NEW n \in Nodes, NEW at \in Stamps, NEW ttl \in TTLs,
             handleSet(r, n, at, ttl)
      PROVE  Goal
  BY <1>2, <1>u DEF handleSet, Fanout
<1>3. ASSUME NEW r \in DelReqs, NEW n \in Nodes, handleDelete(r, n)
      PROVE  Goal
  BY <1>3, <1>u DEF handleDelete, Fanout
<1>4. ASSUME NEW r \in GetReqs, NEW n \in Nodes, handleGet(r, n)
      PROVE  Goal
  BY <1>4, <1>u DEF handleGet
<1>e. ASSUME NEW n \in Nodes, NEW p \in Nodes, markDown(n, p),
             RpcFailed(n, p) \/ NoURL(n, p), UNCHANGED now
      PROVE  Goal
  <2>1. \A m, q \in Nodes : (m # n \/ q # p) => downUntil'[m][q] = downUntil[m][q]
    BY <1>e DEF markDown, TypeOK
  <2>2. CASE RpcFailed(n, p)
    <3>1. lastErr'[n][p] = now /\ now # 0 /\ nameless' = nameless
      BY <1>0, <2>2 DEF RpcFailed, ClockRuns, TypeOK
    <3>2. \A m, q \in Nodes : (m # n \/ q # p) => lastErr'[m][q] = lastErr[m][q]
      BY <1>0, <2>2 DEF RpcFailed, TypeOK
    <3> QED
      BY <1>e, <2>1, <3>1, <3>2 DEF ClockRuns, SkippedOnlyAfterError
  <2>3. CASE NoURL(n, p)
    <3>1. p \in nameless'[n] /\ lastErr' = lastErr
      BY <1>0, <2>3 DEF NoURL, TypeOK
    <3>2. \A m \in Nodes : nameless[m] \subseteq nameless'[m]
      BY <1>0, <2>3 DEF NoURL, TypeOK
    <3> QED
      BY <1>e, <2>1, <3>1, <3>2 DEF ClockRuns, SkippedOnlyAfterError
  <2> QED
    BY <1>e, <2>2, <2>3
<1>5. ASSUME NEW r \in Reqs, NEW o \in Nodes, CollectErr(r, o) PROVE Goal
  <2>1. coord[r] \in Nodes
    BY <1>5 DEF CollectErr, Handlers
  <2> QED
    BY <1>5, <1>e, <2>1 DEF CollectErr
<1>6. ASSUME NEW r \in Reqs, NEW o \in Nodes, CollectAck(r, o) \/ ServeWrite(r, o)
      PROVE  Goal
  BY <1>6, <1>u DEF CollectAck, ServeWrite, hist
<1>7. ASSUME NEW r \in Reqs, NEW o \in Nodes, WriteUnknown(r, o) PROVE Goal
  <2>1. coord[r] \in Nodes
    BY <1>7 DEF WriteUnknown, TypeOK
  <2>2. CASE verdict[r][o] = "wait"
    BY <1>7, <1>e, <2>1, <2>2 DEF WriteUnknown
  <2>3. CASE verdict[r][o] # "wait"
    BY <1>7, <1>u, <2>3 DEF WriteUnknown
  <2> QED
    BY <2>2, <2>3
<1>8. ASSUME NEW r \in Reqs, FanoutDone(r) \/ WalkLocal(r) \/ ServeRead(r) \/ Recv(r) \/ WalkEnd(r)
      PROVE  Goal
  BY <1>8, <1>u DEF FanoutDone, WalkLocal, ServeRead, Recv, WalkEnd, hist
<1>9. ASSUME NEW r \in Reqs, WalkSkip(r) PROVE Goal
  <2>1. PICK t \in Nodes : t = Target(r) /\ coord[r] \in Nodes
    BY <1>9, AskedIsOwner DEF WalkSkip, Asking
  <2>2. /\ downUntil[coord[r]][t] # 0 /\ markDown(coord[r], t)
        /\ UNCHANGED <<now, lastErr, nameless>>
    BY <1>9, <2>1 DEF WalkSkip, isDown, PassOver
  <2>3. \A m, q \in Nodes : (m # coord[r] \/ q # t) => downUntil'[m][q] = downUntil[m][q]
    BY <2>1, <2>2 DEF markDown, TypeOK
  <2> QED
    BY <2>1, <2>2, <2>3 DEF ClockRuns, SkippedOnlyAfterError
<1>10. ASSUME NEW r \in Reqs, WalkUnknown(r) \/ ReadErr(r) PROVE Goal
  <2>1. /\ Asking(r) /\ PassOver(r)
        /\ RpcFailed(coord[r], Target(r)) \/ NoURL(coord[r], Target(r))
    BY <1>10 DEF WalkUnknown, ReadErr, Asking
  <2>2. coord[r] \in Nodes /\ Target(r) \in Nodes
    BY <2>1, AskedIsOwner
  <2> QED
    BY <1>e, <2>1, <2>2 DEF PassOver
<1>z. ASSUME NEW n \in Nodes, NEW p \in Nodes, downUntil' = [downUntil EXCEPT ![n][p] = 0],
             UNCHANGED <<now, lastErr, nameless>>
      PROVE  Goal
  BY <1>z DEF ClockRuns, SkippedOnlyAfterError, TypeOK
<1>11. ASSUME NEW r \in Reqs, WalkSend(r) PROVE Goal
  <2>1. Target(r) \in Nodes /\ coord[r] \in Nodes
    BY <1>11, AskedIsOwner DEF WalkSend, Asking
  <2> QED
    BY <1>11, <1>z, <2>1 DEF WalkSend, hist
<1>12. ASSUME NEW n \in Nodes, Evict(n) \/ Sweep(n) \/ Restart(n) PROVE Goal
  BY <1>12, <1>u DEF Evict, Sweep, Restart, hist
<1>13. ASSUME NEW n \in Nodes, Crash(n) PROVE Goal
  BY <1>13 DEF Crash, ClockRuns, SkippedOnlyAfterError, TypeOK
<1>14. ASSUME NEW n \in Nodes, NEW id \in Nodes, join(n, id) \/ leave(n, id) PROVE Goal
  BY <1>14, <1>u, <1>z DEF join, leave, hist
<1>15. ASSUME TimePasses PROVE Goal
  BY <1>15 DEF TimePasses, hist, ClockRuns, SkippedOnlyAfterError, TypeOK
<1> HIDE DEF Struct, Goal
<1>16. Goal
  BY <1>0, <1>1, <1>2, <1>3, <1>4, <1>5, <1>6, <1>7, <1>8, <1>9, <1>10, <1>11, <1>12,
     <1>13, <1>14, <1>15, StepCases, Zenon
<1> QED
  BY <1>16 DEF Goal

\* The breaker never skips a peer that has given this process no error and that
\* this process never missed on its ring.
THEOREM SkipsAreEarned == Spec => []SkippedOnlyAfterError
<1>1. Init => Struct /\ ClockRuns /\ SkippedOnlyAfterError
  <2> SUFFICES ASSUME Init PROVE Struct /\ ClockRuns /\ SkippedOnlyAfterError
    OBVIOUS
  <2>1. ClockRuns /\ SkippedOnlyAfterError
    BY DEF Init, ClockRuns, SkippedOnlyAfterError
  <2> QED
    BY <2>1, StructInit
<1>2. Struct /\ ClockRuns /\ SkippedOnlyAfterError /\ [Next]_vars
        => Struct' /\ ClockRuns' /\ SkippedOnlyAfterError'
  BY StructStep, SkippedStep
<1> QED
  BY <1>1, <1>2, PTL DEF Spec
----------------------------------------------------------------------------
(* What acked writes mean to later reads. *)

\* An owner that has served a SET or a repair holds it or something newer, as
\* long as no entry was lost.
ServedHeld ==
    \A r \in Reqs \ DelReqs, o \in Nodes : ~wiped /\ wire[r][o] = "done" =>
        store[o] # Absent /\ store[o].at >= body[r].at

\* fanout counts no ack that the owner did not send.
AcksServed ==
    \A s \in SetReqs, o \in Nodes : verdict[s][o] = "ok" => wire[s][o] = "done"

\* The SETs that count for a GET have been served by all their owners.
BeforeServed ==
    \A g \in GetReqs : \A s \in before[g] :
        pc[s] = "done" /\ \A o \in OwnerSet(s) : wire[s][o] = "done"

\* The owners of a request are nodes.
LEMMA OwnersAreNodes ==
    ASSUME TypeOK, NEW r \in Reqs
    PROVE  OwnerSet(r) \subseteq Nodes
<1>1. owners[r] \in Seq(Nodes)
  BY DEF TypeOK
<1>2. DOMAIN owners[r] = 1 .. Len(owners[r])
  BY <1>1, LenProperties
<1> QED
  BY <1>1, <1>2, ElementOfSeq DEF OwnerSet, ToSet

\* What a step can do to served writes, to acks and to what counts for a GET.
AcksMove ==
    /\ \A r \in Reqs, o \in Nodes :
          /\ wire[r][o] = "done" => wire'[r][o] = "done"
          /\ pc[r] = "done" /\ wire[r][o] = "none" => wire'[r][o] = "none"
          /\ verdict'[r][o] = "ok" => verdict[r][o] = "ok" \/ wire[r][o] = "done"
    /\ \A g \in Reqs : before'[g] = before[g] \/ before'[g] = FullyAcked

\* Every step does just that.
LEMMA AcksMoveStep ==
    ASSUME Struct, [Next]_vars
    PROVE  AcksMove
<1> USE DEF Struct
<1>0. TypeOK
  OBVIOUS
<1>u. CASE UNCHANGED <<wire, verdict, before>>
  BY <1>u DEF AcksMove
<1>1. CASE UNCHANGED vars
  BY <1>1, <1>u DEF vars, req_vars, hist
<1>f. ASSUME NEW r \in Reqs, NEW n \in Nodes, Fanout(r, n) PROVE AcksMove
  <2>1. \A o \in Nodes : wire[r][o] = "none"
    BY <1>f DEF Fanout, Wires
  <2>2. \A q \in Reqs : q # r => wire'[q] = wire[q] /\ verdict'[q] = verdict[q]
    BY <1>f DEF Fanout, TypeOK
  <2>3. \A o \in Nodes : verdict'[r][o] # "ok"
    BY <1>f DEF Fanout, TypeOK
  <2>4. pc[r] # "done" /\ UNCHANGED before
    BY <1>f DEF Fanout
  <2> QED
    BY <2>1, <2>2, <2>3, <2>4 DEF AcksMove
<1>2. ASSUME NEW r \in SetReqs, NEW n \in Nodes, NEW at \in Stamps, NEW ttl \in TTLs,
             handleSet(r, n, at, ttl)
      PROVE  AcksMove
  BY <1>2, <1>f DEF handleSet, Reqs
<1>3. ASSUME NEW r \in DelReqs, NEW n \in Nodes, handleDelete(r, n)
      PROVE  AcksMove
  BY <1>3, <1>f DEF handleDelete, Reqs
<1>4. ASSUME NEW r \in GetReqs, NEW n \in Nodes, handleGet(r, n)
      PROVE  AcksMove
  <2>1. \A g \in Reqs : before'[g] = before[g] \/ before'[g] = FullyAcked
    BY <1>4 DEF handleGet, TypeOK
  <2>2. UNCHANGED <<wire, verdict>>
    BY <1>4 DEF handleGet
  <2> QED
    BY <2>1, <2>2 DEF AcksMove
<1>5. ASSUME NEW r \in Reqs, NEW o \in Nodes, CollectAck(r, o) PROVE AcksMove
  <2>1. /\ wire[r][o] = "done" /\ UNCHANGED <<wire, before>>
        /\ verdict' = [verdict EXCEPT ![r][o] = "ok"]
    BY <1>5 DEF CollectAck, hist
  <2>2. \A q \in Reqs, p \in Nodes : (q # r \/ p # o) => verdict'[q][p] = verdict[q][p]
    BY <2>1 DEF TypeOK
  <2> QED
    BY <2>1, <2>2 DEF AcksMove
<1>c. ASSUME NEW r \in Reqs, NEW o \in Nodes, verdict' = [verdict EXCEPT ![r][o] = "err"]
      PROVE  \A q \in Reqs, p \in Nodes : verdict'[q][p] = "ok" => verdict[q][p] = "ok"
  BY <1>c DEF TypeOK
<1>w. ASSUME NEW r \in Reqs, NEW o \in Nodes, NEW x \in {"none", "done"},
             wire[r][o] = "sent", wire' = [wire EXCEPT ![r][o] = x], UNCHANGED before,
             \A q \in Reqs, p \in Nodes : verdict'[q][p] = "ok" => verdict[q][p] = "ok"
      PROVE  AcksMove
  <2>1. \A q \in Reqs, p \in Nodes : (q # r \/ p # o) => wire'[q][p] = wire[q][p]
    BY <1>w DEF TypeOK
  <2> QED
    BY <1>w, <2>1 DEF AcksMove
<1>6. ASSUME NEW r \in Reqs, NEW o \in Nodes, CollectErr(r, o) PROVE AcksMove
  BY <1>6, <1>c DEF CollectErr, AcksMove
<1>7. ASSUME NEW r \in Reqs, NEW o \in Nodes, WriteUnknown(r, o) PROVE AcksMove
  <2>1. \A q \in Reqs, p \in Nodes : verdict'[q][p] = "ok" => verdict[q][p] = "ok"
    <3>1. CASE verdict[r][o] = "wait"
      BY <1>7, <1>c, <3>1 DEF WriteUnknown
    <3>2. CASE verdict[r][o] # "wait"
      BY <1>7, <3>2 DEF WriteUnknown
    <3> QED
      BY <3>1, <3>2
  <2>2. wire[r][o] = "sent" /\ wire' = [wire EXCEPT ![r][o] = "none"] /\ UNCHANGED before
    BY <1>7 DEF WriteUnknown
  <2> QED
    BY <1>w, <2>1, <2>2
<1>8. ASSUME NEW r \in Reqs, NEW o \in Nodes, ServeWrite(r, o) PROVE AcksMove
  <2>1. /\ wire[r][o] = "sent" /\ UNCHANGED <<before, verdict>>
        /\ \E x \in {"none", "done"} : wire' = [wire EXCEPT ![r][o] = x]
    BY <1>8 DEF ServeWrite, hist
  <2> QED
    BY <1>w, <2>1
<1>9. ASSUME NEW r \in Reqs,
             \/ FanoutDone(r) \/ WalkEnd(r) \/ WalkSend(r) \/ ServeRead(r)
             \/ WalkSkip(r) \/ WalkUnknown(r) \/ ReadErr(r)
      PROVE  AcksMove
  BY <1>9, <1>u DEF FanoutDone, WalkEnd, WalkSend, ServeRead, WalkSkip, WalkUnknown, ReadErr,
                    PassOver, hist
<1>h. ASSUME NEW r \in GetReqs, NEW val, NEW at, NEW sb, HitStep(r, val, at, sb), pc[r] # "done",
             UNCHANGED <<verdict, before>>
      PROVE  AcksMove
  <2>1. r \in Reqs /\ \A o \in Nodes : wire[r][o] = "none"
    BY <1>h DEF Wires, Reqs
  <2>2. \A q \in Reqs : q # r => wire'[q] = wire[q]
    BY <1>h DEF HitStep, TypeOK
  <2> QED
    BY <1>h, <2>1, <2>2 DEF AcksMove
<1>10. ASSUME NEW r \in Reqs, WalkLocal(r) PROVE AcksMove
  <2>1. coord[r] \in Nodes /\ r \in GetReqs /\ pc[r] # "done" /\ UNCHANGED <<verdict, before>>
    BY <1>10, AskedIsOwner DEF WalkLocal, Asking, Walking
  <2>3. CASE Live(coord[r])
    BY <1>10, <1>h, <2>1, <2>3, WalkLocalHit
  <2>4. CASE ~Live(coord[r])
    BY <1>10, <1>u, <2>1, <2>4 DEF WalkLocal, Miss
  <2> QED
    BY <2>3, <2>4
<1>11. ASSUME NEW r \in Reqs, Recv(r) PROVE AcksMove
  <2>1. r \in GetReqs /\ pc[r] # "done" /\ UNCHANGED <<verdict, before>>
    BY <1>11 DEF Recv, hist, Handlers
  <2>3. CASE reply[r] # Absent
    BY <1>11, <1>h, <2>1, <2>3, RecvHit
  <2>4. CASE reply[r] = Absent
    BY <1>11, <1>u, <2>1, <2>4 DEF Recv, Miss
  <2> QED
    BY <2>3, <2>4
<1>12. ASSUME NEW n \in Nodes, Evict(n) \/ Sweep(n) \/ Restart(n) PROVE AcksMove
  BY <1>12, <1>u DEF Evict, Sweep, Restart, req_vars, hist
<1>13. ASSUME NEW n \in Nodes, Crash(n) PROVE AcksMove
  <2>1. \A r \in Reqs, o \in Nodes : wire'[r][o] = wire[r][o] \/ (wire[r][o] = "sent" /\ wire'[r][o] = "none")
    BY <1>13 DEF Crash, TypeOK
  <2>2. \A r \in Reqs, o \in Nodes : verdict'[r][o] = verdict[r][o] \/ verdict'[r][o] = "none"
    BY <1>13 DEF Crash, TypeOK
  <2>3. UNCHANGED before
    BY <1>13 DEF Crash
  <2> QED
    BY <2>1, <2>2, <2>3 DEF AcksMove
<1>14. ASSUME NEW n \in Nodes, NEW id \in Nodes, join(n, id) \/ leave(n, id) PROVE AcksMove
  BY <1>14, <1>u DEF join, leave, req_vars, hist
<1>15. CASE TimePasses
  BY <1>15, <1>u DEF TimePasses, req_vars, hist
<1> HIDE DEF Struct
<1> QED
  BY <1>0, <1>1, <1>2, <1>3, <1>4, <1>5, <1>6, <1>7, <1>8, <1>9, <1>10, <1>11, <1>12,
     <1>13, <1>14, <1>15, StepCases, Zenon

\* Acked writes stay where they are, as long as no entry is lost.
LEMMA AckedStep ==
    ASSUME Struct, ServedHeld, AcksServed, BeforeServed, [Next]_vars
    PROVE  ServedHeld' /\ AcksServed' /\ BeforeServed'
<1>0. Struct' /\ RequestsKeep /\ StoresMove /\ WiresMove /\ (wiped => wiped') /\ AcksMove
  BY StructStep, RequestsKeepStep, StoresMoveStep, AcksMoveStep
<1>1. ServedHeld'
  <2> SUFFICES ASSUME NEW r \in Reqs \ DelReqs, NEW o \in Nodes, ~wiped', wire'[r][o] = "done"
               PROVE  store'[o] # Absent /\ store'[o].at >= body'[r].at
    BY DEF ServedHeld
  <2>1. CASE wire[r][o] = "done"
    <3>1. store[o] # Absent /\ store[o].at >= body[r].at /\ body[r] # Absent
      BY <1>0, <2>1 DEF ServedHeld, Struct, Wires
    <3>2. body'[r] = body[r]
      <4>1. pc[r] # "idle" /\ (r \in GetReqs => pc[r] = "done")
        BY <2>1 DEF Struct, Wires
      <4> QED
        BY <1>0, <4>1 DEF RequestsKeep, Reqs
    <3>3. store[o].at \in Nat /\ body[r].at \in Nat
      <4>1. store[o] \in Entry /\ body[r] \in Body
        BY <3>1 DEF Struct, TypeOK
      <4> QED
        BY <4>1, NumbersAssumption DEF Entry, Body
    <3>4. CASE store'[o] = store[o]
      BY <3>1, <3>2, <3>4
    <3>5. ASSUME NEW q \in Reqs \ DelReqs, body[q] # Absent, store'[o] # Absent,
                 Alike(store'[o], body[q]), store[o].at <= body[q].at
          PROVE  store'[o] # Absent /\ store'[o].at >= body'[r].at
      <4>1. body[q] \in Body
        BY <3>5 DEF Struct, TypeOK
      <4>2. body[q].at \in Nat
        BY <4>1, NumbersAssumption DEF Body
      <4> QED
        BY <3>1, <3>2, <3>3, <3>5, <4>2 DEF Alike
    <3> QED
      BY <1>0, <3>1, <3>4, <3>5 DEF StoresMove
  <2>2. CASE wire[r][o] # "done"
    BY <1>0, <2>2 DEF WiresMove
  <2> QED
    BY <2>1, <2>2
<1>2. AcksServed'
  BY <1>0 DEF AcksServed, AcksMove, Reqs
<1>3. BeforeServed'
  <2> SUFFICES ASSUME NEW g \in GetReqs, NEW s \in before'[g]
               PROVE  pc'[s] = "done" /\ \A o \in OwnerSet(s)' : wire'[s][o] = "done"
    BY DEF BeforeServed
  <2>1. g \in Reqs /\ s \in SetReqs /\ s \in Reqs
    BY <1>0 DEF Struct, TypeOK, Reqs
  <2>2. OwnerSet(s) \subseteq Nodes
    BY <2>1, OwnersAreNodes DEF Struct
  <2>3. pc[s] = "done" /\ \A o \in OwnerSet(s) : wire[s][o] = "done"
    <3>1. CASE s \in before[g]
      BY <3>1 DEF BeforeServed
    <3>2. CASE s \in FullyAcked
      BY <2>1, <2>2, <3>2 DEF FullyAcked, AcksServed
    <3> QED
      BY <1>0, <2>1, <3>1, <3>2 DEF AcksMove
  <2>4. pc'[s] = "done" /\ owners'[s] = owners[s]
    BY <1>0, <2>1, <2>3 DEF RequestsKeep
  <2> QED
    BY <1>0, <2>1, <2>2, <2>3, <2>4 DEF AcksMove, OwnerSet
<1> QED
  BY <1>1, <1>2, <1>3
----------------------------------------------------------------------------
(* The life of a GET. *)

\* Nothing happens to GET g but, perhaps, to its repairs.
GetRests(g) ==
    /\ pc'[g] = pc[g] /\ idx'[g] = idx[g] /\ reply'[g] = reply[g] /\ code'[g] = code[g]
    /\ unheard'[g] = unheard[g] /\ before'[g] = before[g]

GetBegins(g) ==
    pc[g] = "idle" /\ pc'[g] = "walk" /\ idx'[g] = 1 /\ code'[g] = code[g]

\* It goes on to the next owner, because the one it asked has no entry ...
GetMisses(g) ==
    /\ Asking(g) /\ pc'[g] = "walk" /\ idx'[g] = idx[g] + 1 /\ code'[g] = code[g]
    /\ unheard'[g] = unheard[g]
    /\ \/ pc[g] = "replied" /\ reply[g] = Absent
       \/ ~wiped' => store[Target(g)] = Absent

\* ... or because it has not heard from it.
GetPassesOver(g) ==
    /\ Asking(g) /\ pc'[g] = "walk" /\ idx'[g] = idx[g] + 1 /\ code'[g] = code[g]
    /\ unheard'[g] = unheard[g] \cup {Target(g)}

GetSends(g) ==
    /\ pc[g] = "walk" /\ pc'[g] = "rpc"
    /\ idx'[g] = idx[g] /\ code'[g] = code[g] /\ unheard'[g] = unheard[g]

\* The owner has answered what it holds.
GetIsAnswered(g) ==
    /\ pc[g] = "rpc" /\ pc'[g] = "replied"
    /\ idx'[g] = idx[g] /\ code'[g] = code[g] /\ unheard'[g] = unheard[g]
    /\ ~wiped' => /\ reply'[g] = Absent <=> store[Target(g)] = Absent
                  /\ reply'[g] # Absent => Alike(reply'[g], store[Target(g)])

\* It ends with what the owner holds or has answered, and sends that to the
\* others.
GetHits(g) ==
    /\ Asking(g) /\ pc'[g] = "done" /\ code'[g] = 200
    /\ idx'[g] = idx[g] /\ unheard'[g] = unheard[g]
    /\ reply'[g] # Absent
    /\ \/ pc[g] = "replied" /\ reply[g] # Absent /\ Alike(reply'[g], reply[g])
       \/ store[Target(g)] # Absent /\ Alike(reply'[g], store[Target(g)])
    /\ UNCHANGED store
    /\ wire'[g][Target(g)] = "none"
    /\ \A o \in Nodes : wire'[g][o] # "none" => Alike(body'[g], reply'[g])

GetEnds(g) ==
    /\ pc[g] = "walk" /\ idx[g] > Len(owners[g])
    /\ pc'[g] = "done" /\ code'[g] \in {404, 503}
    /\ idx'[g] = idx[g] /\ unheard'[g] = unheard[g]

GetDies(g) == pc'[g] = "dead" /\ idx'[g] = 0 /\ code'[g] = code[g]

GetMoves(g) ==
    \/ GetRests(g) \/ GetBegins(g) \/ GetMisses(g) \/ GetPassesOver(g) \/ GetSends(g)
    \/ GetIsAnswered(g) \/ GetHits(g) \/ GetEnds(g) \/ GetDies(g)

\* Every step takes every GET one of these ways.
LEMMA GetMovesStep ==
    ASSUME Struct, [Next]_vars, NEW g \in GetReqs
    PROVE  GetMoves(g)
<1> USE DEF Struct
<1>0. TypeOK /\ g \in Reqs
  BY DEF Reqs
<1>u. CASE UNCHANGED <<pc, idx, reply, code, unheard, before>>
  BY <1>u DEF GetMoves, GetRests
<1>1. CASE UNCHANGED vars
  BY <1>1, <1>u DEF vars, req_vars, hist
<1>2. ASSUME NEW r \in SetReqs, NEW n \in Nodes, NEW at \in Stamps, NEW ttl \in TTLs,
             handleSet(r, n, at, ttl)
      PROVE  GetMoves(g)
  <2>1. r # g
    BY ReqsAssumption
  <2> QED
    BY <1>0, <1>2, <2>1 DEF handleSet, Fanout, GetMoves, GetRests, TypeOK
<1>3. ASSUME NEW r \in DelReqs, NEW n \in Nodes, handleDelete(r, n)
      PROVE  GetMoves(g)
  <2>1. r # g
    BY ReqsAssumption
  <2> QED
    BY <1>0, <1>3, <2>1 DEF handleDelete, Fanout, GetMoves, GetRests, TypeOK
<1>4. ASSUME NEW r \in GetReqs, NEW n \in Nodes, handleGet(r, n)
      PROVE  GetMoves(g)
  <2>1. CASE r = g
    BY <1>0, <1>4, <2>1 DEF handleGet, GetMoves, GetBegins, TypeOK
  <2>2. CASE r # g
    BY <1>0, <1>4, <2>2 DEF handleGet, GetMoves, GetRests, TypeOK
  <2> QED
    BY <2>1, <2>2
<1>5. ASSUME NEW r \in Reqs, NEW o \in Nodes,
             \/ CollectAck(r, o) \/ CollectErr(r, o)
             \/ ServeWrite(r, o) \/ WriteUnknown(r, o)
      PROVE  GetMoves(g)
  BY <1>5, <1>u DEF CollectAck, CollectErr, ServeWrite, WriteUnknown, hist
<1>6. ASSUME NEW r \in Reqs, FanoutDone(r) PROVE GetMoves(g)
  <2>1. r # g
    BY <1>6 DEF FanoutDone, Handlers
  <2> QED
    BY <1>0, <1>6, <2>1 DEF FanoutDone, hist, GetMoves, GetRests, TypeOK
<1>h. ASSUME NEW r \in Reqs, NEW val, NEW at, NEW sb, HitStep(r, val, at, sb), r # g,
             UNCHANGED <<unheard, before>>
      PROVE  GetMoves(g)
  BY <1>0, <1>h DEF HitStep, GetMoves, GetRests, TypeOK
<1>i. ASSUME NEW x, NEW sb, HitStep(g, x.val, x.at, sb), Asking(g), sb = Target(g),
             \/ pc[g] = "replied" /\ reply[g] # Absent /\ x = reply[g]
             \/ store[Target(g)] # Absent /\ x = store[Target(g)],
             UNCHANGED <<unheard, store>>
      PROVE  GetMoves(g)
  <2>1. Target(g) \in Nodes
    BY <1>0, <1>i, AskedIsOwner
  <2>2. \A o \in Nodes : wire[g][o] = "none"
    BY <1>0, <1>i DEF Asking, Walking, Wires
  <2>3. PICK y \in Reply : Alike(y, x) /\ reply' = [reply EXCEPT ![g] = y]
    BY <1>i DEF HitStep, Alike
  <2>4. reply'[g] = y /\ y # Absent
    BY <1>0, <2>3, AbsentAssumption DEF TypeOK
  <2>5. /\ wire'[g][Target(g)] = "none"
        /\ \A o \in Nodes : wire'[g][o] # "none" => Alike(body'[g], reply'[g])
    <3>1. CASE UNCHANGED <<body, wire>>
      BY <2>1, <2>2, <3>1
    <3>2. ASSUME NEW b \in Body, b.val = x.val, b.at = x.at, body' = [body EXCEPT ![g] = b],
                 wire' = [wire EXCEPT ![g] =
                            [o \in Nodes |-> IF o \in OwnerSet(g) \ {sb} THEN "sent" ELSE "none"]]
          PROVE  /\ wire'[g][Target(g)] = "none"
                 /\ \A o \in Nodes : wire'[g][o] # "none" => Alike(body'[g], reply'[g])
      <4>1. body'[g] = b
        BY <1>0, <3>2 DEF TypeOK
      <4>2. Alike(body'[g], reply'[g])
        BY <2>3, <2>4, <3>2, <4>1 DEF Alike
      <4>3. wire'[g][Target(g)] = "none"
        BY <1>0, <1>i, <2>1, <3>2 DEF TypeOK
      <4> QED
        BY <4>2, <4>3
    <3> QED
      BY <1>i, <3>1, <3>2 DEF HitStep
  <2>6. pc'[g] = "done" /\ code'[g] = 200 /\ idx'[g] = idx[g]
    BY <1>0, <1>i DEF HitStep, TypeOK
  <2>7. \/ pc[g] = "replied" /\ reply[g] # Absent /\ Alike(reply'[g], reply[g])
        \/ store[Target(g)] # Absent /\ Alike(reply'[g], store[Target(g)])
    BY <1>i, <2>3, <2>4
  <2>8. GetHits(g)
    BY <1>i, <2>4, <2>5, <2>6, <2>7 DEF GetHits
  <2> QED
    BY <2>8 DEF GetMoves
<1>m. ASSUME NEW r \in Reqs, Miss(r), Asking(r), UNCHANGED <<unheard, before>>,
             \/ pc[r] = "replied" /\ reply[r] = Absent
             \/ ~wiped' => store[Target(r)] = Absent
      PROVE  GetMoves(g)
  <2>1. CASE r = g
    BY <1>0, <1>m, <2>1 DEF Miss, GetMoves, GetMisses, TypeOK
  <2>2. CASE r # g
    BY <1>0, <1>m, <2>2 DEF Miss, GetMoves, GetRests, TypeOK
  <2> QED
    BY <2>1, <2>2
<1>7. ASSUME NEW r \in Reqs, WalkLocal(r) PROVE GetMoves(g)
  <2>1. coord[r] \in Nodes /\ Asking(r) /\ Target(r) = coord[r] /\ UNCHANGED <<unheard, before>>
    BY <1>7, AskedIsOwner DEF WalkLocal, Asking
  <2>3. CASE Live(coord[r])
    <3>1. HitStep(r, store[coord[r]].val, store[coord[r]].at, coord[r]) /\ UNCHANGED store
      BY <1>7, <2>1, <2>3, WalkLocalHit
    <3>2. store[Target(r)] # Absent
      BY <2>1, <2>3 DEF Live
    <3> QED
      BY <1>h, <1>i, <2>1, <3>1, <3>2
  <2>4. CASE ~Live(coord[r])
    <3>1. ~wiped' => store[Target(r)] = Absent
      BY <1>7, <2>1, <2>4, StoreGetEffect DEF WalkLocal
    <3> QED
      BY <1>7, <1>m, <2>1, <2>4, <3>1 DEF WalkLocal
  <2> QED
    BY <2>3, <2>4
<1>8. ASSUME NEW r \in Reqs, WalkSkip(r) \/ WalkUnknown(r) \/ ReadErr(r) PROVE GetMoves(g)
  <2>1. Asking(r) /\ PassOver(r)
    BY <1>8 DEF WalkSkip, WalkUnknown, ReadErr, Asking
  <2>2. CASE r = g
    BY <1>0, <2>1, <2>2 DEF PassOver, GetMoves, GetPassesOver, TypeOK
  <2>3. CASE r # g
    BY <1>0, <2>1, <2>3 DEF PassOver, GetMoves, GetRests, TypeOK
  <2> QED
    BY <2>2, <2>3
<1>9. ASSUME NEW r \in Reqs, WalkSend(r) PROVE GetMoves(g)
  <2>2. CASE r = g
    BY <1>0, <1>9, <2>2 DEF WalkSend, Walking, hist, GetMoves, GetSends, TypeOK
  <2>3. CASE r # g
    BY <1>0, <1>9, <2>3 DEF WalkSend, hist, GetMoves, GetRests, TypeOK
  <2> QED
    BY <2>2, <2>3
<1>10. ASSUME NEW r \in Reqs, ServeRead(r) PROVE GetMoves(g)
  <2>2. CASE r = g
    <3>1. PICK t \in Nodes : t = Target(g)
      BY <1>0, <1>10, <2>2, AskedIsOwner DEF ServeRead, Asking
    <3>2. StoreGet(t) /\ reply'[g] = IF Live(t) THEN getPayload(store[t]) ELSE Absent
      BY <1>0, <1>10, <2>2, <3>1 DEF ServeRead, TypeOK
    <3>3. CASE Live(t)
      <4>1. getPayload(store[t]) \in Reply /\ Alike(getPayload(store[t]), store[t])
        BY <3>3, LiveIsFresh, PayloadType DEF Alike
      <4>2. reply'[g] # Absent /\ store[t] # Absent /\ Alike(reply'[g], store[t])
        BY <3>2, <3>3, <4>1, AbsentAssumption DEF Live
      <4> QED
        BY <1>0, <1>10, <2>2, <3>1, <4>2 DEF ServeRead, GetMoves, GetIsAnswered, TypeOK
    <3>4. CASE ~Live(t)
      <4>1. ~wiped' => store[t] = Absent
        BY <3>2, <3>4, StoreGetEffect
      <4> QED
        BY <1>0, <1>10, <2>2, <3>1, <3>2, <3>4, <4>1 DEF ServeRead, GetMoves, GetIsAnswered, TypeOK
    <3> QED
      BY <3>3, <3>4
  <2>3. CASE r # g
    BY <1>0, <1>10, <2>3 DEF ServeRead, GetMoves, GetRests, TypeOK
  <2> QED
    BY <2>2, <2>3
<1>11. ASSUME NEW r \in Reqs, Recv(r) PROVE GetMoves(g)
  <2>1. Asking(r) /\ pc[r] = "replied" /\ UNCHANGED <<unheard, before, store>>
    BY <1>11 DEF Recv, Asking, hist
  <2>3. CASE reply[r] # Absent
    <3>1. HitStep(r, reply[r].val, reply[r].at, Target(r))
      BY <1>11, <2>3, RecvHit
    <3> QED
      BY <1>h, <1>i, <2>1, <2>3, <3>1
  <2>4. CASE reply[r] = Absent
    BY <1>11, <1>m, <2>1, <2>4 DEF Recv
  <2> QED
    BY <2>3, <2>4
<1>12. ASSUME NEW r \in Reqs, WalkEnd(r) PROVE GetMoves(g)
  <2>2. CASE r = g
    BY <1>0, <1>12, <2>2 DEF WalkEnd, hist, GetMoves, GetEnds, TypeOK
  <2>3. CASE r # g
    BY <1>0, <1>12, <2>3 DEF WalkEnd, hist, GetMoves, GetRests, TypeOK
  <2> QED
    BY <2>2, <2>3
<1>13. ASSUME NEW n \in Nodes, Evict(n) \/ Sweep(n) \/ Restart(n) PROVE GetMoves(g)
  BY <1>13, <1>u DEF Evict, Sweep, Restart, req_vars, hist
<1>14. ASSUME NEW n \in Nodes, Crash(n) PROVE GetMoves(g)
  BY <1>0, <1>14 DEF Crash, GetMoves, GetRests, GetDies, TypeOK
<1>15. ASSUME NEW n \in Nodes, NEW id \in Nodes, join(n, id) \/ leave(n, id) PROVE GetMoves(g)
  BY <1>15, <1>u DEF join, leave, req_vars, hist
<1>16. CASE TimePasses
  BY <1>16, <1>u DEF TimePasses, req_vars, hist
<1> HIDE DEF Struct
<1> QED
  BY <1>0, <1>1, <1>2, <1>3, <1>4, <1>5, <1>6, <1>7, <1>8, <1>9, <1>10, <1>11, <1>12,
     <1>13, <1>14, <1>15, <1>16, StepCases, Zenon

\* The i-th owner that GET g asks.
Asked(g, i) == preferLocal(owners[g], coord[g])[i]

\* The owners behind it that it shares with a write that counts for it have not
\* answered: they would have had the entry.
PassedUnheard(g) ==
    ~wiped => \A s \in before[g], i \in 1 .. Len(owners[g]) :
        i < idx[g] /\ Asked(g, i) \in OwnerSet(s) => Asked(g, i) \in unheard[g]

\* An answer on its way to it is not newer than the owner, nor older than a
\* write that counts and that the owner acked.
AnswerFresh(g) ==
    ~wiped /\ pc[g] = "replied" =>
        /\ reply[g] # Absent => /\ store[Target(g)] # Absent
                                /\ store[Target(g)].at >= reply[g].at
        /\ \A s \in before[g] : Target(g) \in OwnerSet(s) =>
              reply[g] # Absent /\ reply[g].at >= body[s].at

\* Some owner served what it found, and it sends the others nothing else.
FoundServed(g) ==
    ~wiped /\ code[g] = 200 =>
        /\ reply[g] # Absent
        /\ \E o \in OwnerSet(g) :
              /\ wire[g][o] = "none"
              /\ store[o] # Absent /\ store[o].at >= reply[g].at
              /\ \A s \in before[g] : o \in OwnerSet(s) => reply[g].at >= body[s].at
        /\ \A o \in Nodes : wire[g][o] # "none" => body[g] # Absent /\ body[g].at = reply[g].at

NotFoundAtEnd(g) == code[g] = 404 => idx[g] > Len(owners[g])

NoneBeforeIdle(g) == pc[g] = "idle" => before[g] = {}

GetInv(g) ==
    PassedUnheard(g) /\ AnswerFresh(g) /\ FoundServed(g) /\ NotFoundAtEnd(g) /\ NoneBeforeIdle(g)

\* Stamps are numbers.
LEMMA StampsAreNumbers ==
    ASSUME TypeOK
    PROVE  /\ \A n \in Nodes : store[n] # Absent => store[n].at \in Nat
           /\ \A r \in Reqs : body[r] # Absent => body[r].at \in Nat
           /\ \A r \in Reqs : reply[r] # Absent => reply[r].at \in Nat
<1>1. \A n \in Nodes : store[n] # Absent => store[n] \in Entry
  BY DEF TypeOK
<1>2. \A r \in Reqs : body[r] # Absent => body[r] \in Body
  BY DEF TypeOK
<1>3. \A r \in Reqs : reply[r] # Absent => reply[r] \in Reply
  BY DEF TypeOK
<1> QED
  BY <1>1, <1>2, <1>3, NumbersAssumption DEF Entry, Body, Reply

\* As long as no entry is lost, stores only move to newer entries.
LEMMA StoresGrow ==
    ASSUME Struct, [Next]_vars, ~wiped'
    PROVE  \A n \in Nodes : store[n] # Absent => store'[n] # Absent /\ store'[n].at >= store[n].at
<1> SUFFICES ASSUME NEW n \in Nodes, store[n] # Absent
             PROVE  store'[n] # Absent /\ store'[n].at >= store[n].at
  OBVIOUS
<1>1. store[n].at \in Nat
  BY StampsAreNumbers DEF Struct
<1>2. CASE store'[n] = store[n]
  BY <1>1, <1>2
<1>3. ASSUME NEW r \in Reqs \ DelReqs, body[r] # Absent, store'[n] # Absent,
             Alike(store'[n], body[r]), store[n].at <= body[r].at
      PROVE  store'[n] # Absent /\ store'[n].at >= store[n].at
  <2>1. body[r].at \in Nat
    BY <1>3, StampsAreNumbers DEF Struct
  <2> QED
    BY <1>1, <1>3, <2>1 DEF Alike
<1> QED
  BY <1>2, <1>3, StoresMoveStep DEF StoresMove

AckInv == ServedHeld /\ AcksServed /\ BeforeServed

\* What the owners of an acked write hold.
LEMMA AckedIsHeld ==
    ASSUME Struct, AckInv, NEW g \in GetReqs, NEW s \in before[g], ~wiped, NEW o \in OwnerSet(s)
    PROVE  store[o] # Absent /\ store[o].at >= body[s].at
<1>1. s \in SetReqs /\ s \in Reqs \ DelReqs
  BY ReqsAssumption DEF Struct, TypeOK, Reqs
<1>2. o \in Nodes
  BY <1>1, OwnersAreNodes DEF Struct
<1>3. wire[s][o] = "done"
  BY DEF AckInv, BeforeServed
<1> QED
  BY <1>1, <1>2, <1>3 DEF AckInv, ServedHeld

\* What holds of a GET and of the writes that count for it stays so.
LEMMA GetInvStep ==
    ASSUME Struct, AckInv, [Next]_vars, NEW g \in GetReqs, GetInv(g)
    PROVE  GetInv(g)'
<1>0. /\ g \in Reqs /\ TypeOK
      /\ Struct' /\ RequestsKeep /\ AcksMove /\ (wiped => wiped')
  BY StructStep, RequestsKeepStep, StoresMoveStep, AcksMoveStep DEF Reqs, Struct
<1>m. /\ \A n \in Nodes : store[n] # Absent => store[n].at \in Nat
      /\ \A r \in Reqs : body[r] # Absent => body[r].at \in Nat
      /\ \A r \in Reqs : reply[r] # Absent => reply[r].at \in Nat
  BY <1>0, StampsAreNumbers
<1>p. /\ \A n \in Nodes : store'[n] # Absent => store'[n].at \in Nat
      /\ \A r \in Reqs : reply'[r] # Absent => reply'[r].at \in Nat
  <2>1. /\ \A n \in Nodes : store'[n] # Absent => store'[n] \in Entry
        /\ \A r \in Reqs : reply'[r] # Absent => reply'[r] \in Reply
    BY <1>0 DEF Struct, TypeOK
  <2> QED
    BY <2>1, NumbersAssumption DEF Entry, Reply
<1>w. \A o \in Nodes : wire'[g][o] # "none" => body'[g] # Absent
  <2>1. g \notin DelReqs
    BY ReqsAssumption
  <2>2. Wires'
    BY <1>0 DEF Struct
  <2> QED
    BY <1>0, <2>1, <2>2 DEF Wires
<1>1. CASE pc[g] = "idle"
  <2>1. code'[g] = 0 /\ pc'[g] \in {"idle", "walk", "dead"}
    <3>1. GetRests(g) \/ GetBegins(g) \/ GetDies(g)
      BY <1>1, GetMovesStep DEF GetMoves, GetMisses, GetPassesOver, GetSends, GetIsAnswered,
         GetHits, GetEnds, Asking, Walking
    <3>2. code[g] = 0
      BY <1>0, <1>1 DEF Struct, Handlers
    <3> QED
      BY <1>1, <3>1, <3>2 DEF GetRests, GetBegins, GetDies
  <2>2. AnswerFresh(g)' /\ FoundServed(g)' /\ NotFoundAtEnd(g)'
    BY <2>1 DEF AnswerFresh, FoundServed, NotFoundAtEnd
  <2>3. PassedUnheard(g)' /\ NoneBeforeIdle(g)'
    <3>1. CASE GetRests(g)
      BY <1>1, <3>1 DEF GetRests, PassedUnheard, NoneBeforeIdle, GetInv
    <3>2. CASE idx'[g] \in {0, 1} /\ pc'[g] # "idle"
      BY <3>2 DEF PassedUnheard, NoneBeforeIdle
    <3> QED
      BY <1>1, <3>1, <3>2, GetMovesStep DEF GetMoves, GetBegins, GetDies, GetMisses, GetPassesOver,
         GetSends, GetIsAnswered, GetHits, GetEnds, Asking, Walking
  <2> QED
    BY <2>2, <2>3 DEF GetInv
<1>2. CASE pc[g] # "idle"
  <2>0. /\ owners'[g] = owners[g] /\ coord'[g] = coord[g] /\ before'[g] = before[g]
        /\ pc'[g] # "idle" /\ OwnerSet(g)' = OwnerSet(g)
    BY <1>0, <1>2 DEF RequestsKeep, OwnerSet
  <2>a. \A i : Asked(g, i)' = Asked(g, i)
    BY <2>0 DEF Asked
  <2>t. Target(g) = Asked(g, idx[g]) /\ (idx'[g] = idx[g] => Target(g)' = Target(g))
    BY <2>0 DEF Asked, Target
  <2>n. Len(owners[g]) \in Nat /\ idx[g] \in Nat /\ OwnerSet(g) \subseteq Nodes
    BY <1>0, LenProperties, OwnersAreNodes DEF TypeOK
  <2>k. Asking(g) => idx[g] \in 1 .. Len(owners[g]) /\ Target(g) \in OwnerSet(g) /\ Target(g) \in Nodes
    BY <1>0, AskedIsOwner DEF Struct
  <2>s. \A s \in before[g] : /\ s \in Reqs /\ body[s] # Absent /\ body'[s] = body[s]
                             /\ OwnerSet(s)' = OwnerSet(s)
    <3> SUFFICES ASSUME NEW s \in before[g]
                 PROVE  /\ s \in Reqs /\ body[s] # Absent /\ body'[s] = body[s]
                        /\ OwnerSet(s)' = OwnerSet(s)
      OBVIOUS
    <3>1. s \in SetReqs /\ s \in Reqs /\ pc[s] = "done"
      BY <1>0 DEF TypeOK, Reqs, AckInv, BeforeServed
    <3>2. body[s] # Absent
      BY <3>1 DEF Struct, Handlers
    <3> QED
      BY <1>0, <3>1, <3>2 DEF RequestsKeep, OwnerSet
  <2>h. ~wiped => \A s \in before[g] : \A o \in OwnerSet(s) :
                     store[o] # Absent /\ store[o].at >= body[s].at
    BY AckedIsHeld
  <2>1. NoneBeforeIdle(g)'
    BY <2>0 DEF NoneBeforeIdle
  <2>2. NotFoundAtEnd(g)'
    <3> SUFFICES ASSUME code'[g] = 404 PROVE idx'[g] > Len(owners'[g])
      BY DEF NotFoundAtEnd
    <3>1. pc'[g] = "done"
      BY <1>0 DEF Struct, Handlers
    <3>2. GetRests(g) \/ GetEnds(g)
      BY <3>1, GetMovesStep DEF GetMoves, GetBegins, GetDies, GetMisses, GetPassesOver,
         GetSends, GetIsAnswered, GetHits
    <3> QED
      BY <2>0, <3>2 DEF GetRests, GetEnds, GetInv, NotFoundAtEnd
  <2>3. PassedUnheard(g)'
    <3> SUFFICES ASSUME ~wiped', NEW s \in before[g], NEW i \in 1 .. Len(owners[g]),
                        i < idx'[g], Asked(g, i) \in OwnerSet(s)
                 PROVE  Asked(g, i) \in unheard'[g]
      BY <2>0, <2>a, <2>s DEF PassedUnheard
    <3>0. ~wiped
      BY <1>0
    <3>1. ASSUME i < idx[g], unheard[g] \subseteq unheard'[g] PROVE Asked(g, i) \in unheard'[g]
      BY <3>0, <3>1 DEF GetInv, PassedUnheard
    <3>2. CASE GetMisses(g)
      <4>1. CASE i = idx[g]
        <5>1. Target(g) \in OwnerSet(s)
          BY <2>t, <4>1
        <5>2. store[Target(g)] # Absent
          BY <2>h, <3>0, <5>1
        <5>3. pc[g] = "replied" => reply[g] # Absent
          BY <3>0, <5>1 DEF GetInv, AnswerFresh
        <5> QED
          BY <3>2, <5>2, <5>3 DEF GetMisses
      <4>2. CASE i # idx[g]
        <5>1. i < idx[g]
          BY <2>n, <3>2, <4>2 DEF GetMisses
        <5> QED
          BY <3>1, <3>2, <5>1 DEF GetMisses
      <4> QED
        BY <4>1, <4>2
    <3>3. CASE GetPassesOver(g)
      <4>1. CASE i = idx[g]
        BY <2>t, <3>3, <4>1 DEF GetPassesOver
      <4>2. CASE i # idx[g]
        <5>1. i < idx[g]
          BY <2>n, <3>3, <4>2 DEF GetPassesOver
        <5> QED
          BY <3>1, <3>3, <5>1 DEF GetPassesOver
      <4> QED
        BY <4>1, <4>2
    <3>4. CASE idx'[g] = idx[g] /\ unheard'[g] = unheard[g]
      BY <3>1, <3>4
    <3>5. CASE GetDies(g)
      BY <3>5 DEF GetDies
    <3> QED
      BY <1>2, <3>2, <3>3, <3>4, <3>5, GetMovesStep DEF GetMoves, GetRests, GetBegins, GetSends,
         GetIsAnswered, GetHits, GetEnds
  <2>4. AnswerFresh(g)'
    <3> SUFFICES ASSUME ~wiped', pc'[g] = "replied" PROVE AnswerFresh(g)'
      BY DEF AnswerFresh
    <3>0. /\ ~wiped /\ idx'[g] = idx[g] /\ Target(g)' = Target(g)
          /\ ((GetRests(g) /\ pc[g] = "replied") \/ GetIsAnswered(g))
      BY <1>0, <2>t, GetMovesStep DEF GetMoves, GetRests, GetBegins, GetDies, GetMisses, GetPassesOver,
         GetSends, GetIsAnswered, GetHits, GetEnds
    <3>1. Asking(g) /\ Target(g) \in Nodes
      BY <2>k, <3>0 DEF Asking, GetIsAnswered
    <3>2. store[Target(g)] # Absent =>
             store'[Target(g)] # Absent /\ store'[Target(g)].at >= store[Target(g)].at
      BY <3>1, StoresGrow
    <3>3. /\ store[Target(g)] # Absent => store[Target(g)].at \in Nat
          /\ store'[Target(g)] # Absent => store'[Target(g)].at \in Nat
          /\ reply[g] # Absent => reply[g].at \in Nat
          /\ reply'[g] # Absent => reply'[g].at \in Nat
          /\ \A s \in before[g] : body[s].at \in Nat
      BY <1>0, <1>m, <1>p, <2>s, <3>1
    <3>4. reply'[g] # Absent => store'[Target(g)] # Absent /\ store'[Target(g)].at >= reply'[g].at
      <4>1. CASE GetRests(g) /\ pc[g] = "replied"
        BY <3>0, <3>2, <3>3, <4>1 DEF GetRests, GetInv, AnswerFresh
      <4>2. CASE GetIsAnswered(g)
        BY <3>2, <3>3, <4>2 DEF GetIsAnswered, Alike
      <4> QED
        BY <3>0, <4>1, <4>2
    <3>5. ASSUME NEW s \in before[g], Target(g) \in OwnerSet(s)
          PROVE  reply'[g] # Absent /\ reply'[g].at >= body[s].at
      <4>1. CASE GetRests(g) /\ pc[g] = "replied"
        BY <3>0, <3>5, <4>1 DEF GetRests, GetInv, AnswerFresh
      <4>2. CASE GetIsAnswered(g)
        BY <2>h, <3>0, <3>5, <4>2 DEF GetIsAnswered, Alike
      <4> QED
        BY <3>0, <4>1, <4>2
    <3> QED
      BY <2>0, <2>s, <3>0, <3>4, <3>5 DEF AnswerFresh
  <2>5. FoundServed(g)'
    <3> SUFFICES ASSUME ~wiped', code'[g] = 200 PROVE FoundServed(g)'
      BY DEF FoundServed
    <3>0. ~wiped /\ pc'[g] = "done"
      BY <1>0 DEF Struct, Handlers
    <3>1. CASE GetRests(g)
      <4>1. pc[g] = "done" /\ code[g] = 200 /\ reply'[g] = reply[g] /\ body'[g] = body[g]
        BY <1>0, <3>0, <3>1 DEF GetRests, RequestsKeep
      <4>2. /\ reply[g] # Absent
            /\ \A o \in Nodes : wire[g][o] # "none" => body[g] # Absent /\ body[g].at = reply[g].at
        BY <3>0, <4>1 DEF GetInv, FoundServed
      <4>3. PICK o \in OwnerSet(g) :
              /\ wire[g][o] = "none"
              /\ store[o] # Absent /\ store[o].at >= reply[g].at
              /\ \A s \in before[g] : o \in OwnerSet(s) => reply[g].at >= body[s].at
        BY <3>0, <4>1 DEF GetInv, FoundServed
      <4>4. o \in Nodes /\ wire'[g][o] = "none"
        BY <1>0, <2>n, <4>1, <4>3 DEF AcksMove
      <4>5. store'[o] # Absent /\ store'[o].at >= reply'[g].at
        <5>1. store'[o] # Absent /\ store'[o].at >= store[o].at
          BY <4>3, <4>4, StoresGrow
        <5>2. store[o].at \in Nat /\ store'[o].at \in Nat /\ reply[g].at \in Nat
          BY <1>0, <1>m, <1>p, <4>2, <4>3, <4>4, <5>1
        <5> QED
          BY <4>1, <4>3, <5>1, <5>2
      <4>6. \A p \in Nodes : wire'[g][p] # "none" => body'[g] # Absent /\ body'[g].at = reply'[g].at
        BY <1>0, <4>1, <4>2 DEF AcksMove
      <4>7. \A s \in before'[g] : o \in OwnerSet(s)' => reply'[g].at >= body'[s].at
        BY <2>0, <2>s, <4>1, <4>3
      <4> QED
        BY <2>0, <4>1, <4>2, <4>3, <4>4, <4>5, <4>6, <4>7 DEF FoundServed
    <3>2. CASE GetHits(g)
      <4>1. /\ Target(g) \in OwnerSet(g) /\ Target(g) \in Nodes /\ store' = store
            /\ wire'[g][Target(g)] = "none" /\ reply'[g] # Absent
            /\ \A o \in Nodes : wire'[g][o] # "none" => Alike(body'[g], reply'[g])
        BY <2>k, <3>2 DEF GetHits
      <4>2. reply'[g].at \in Nat
        BY <1>0, <1>p, <4>1
      <4>3. /\ store[Target(g)] # Absent /\ store[Target(g)].at >= reply'[g].at
            /\ \A s \in before[g] : Target(g) \in OwnerSet(s) => reply'[g].at >= body[s].at
        <5>1. CASE pc[g] = "replied" /\ reply[g] # Absent /\ Alike(reply'[g], reply[g])
          BY <3>0, <5>1 DEF GetInv, AnswerFresh, Alike
        <5>2. CASE store[Target(g)] # Absent /\ Alike(reply'[g], store[Target(g)])
          BY <2>h, <3>0, <4>2, <5>2 DEF Alike
        <5> QED
          BY <3>2, <5>1, <5>2 DEF GetHits
      <4>4. \A o \in Nodes : wire'[g][o] # "none" => body'[g] # Absent /\ body'[g].at = reply'[g].at
        BY <1>w, <4>1 DEF Alike
      <4>5. \A s \in before'[g] : Target(g) \in OwnerSet(s)' => reply'[g].at >= body'[s].at
        BY <2>0, <2>s, <4>3
      <4> QED
        BY <2>0, <4>1, <4>3, <4>4, <4>5 DEF FoundServed
    <3> QED
      BY <3>0, <3>1, <3>2, GetMovesStep DEF GetMoves, GetBegins, GetDies, GetMisses, GetPassesOver,
         GetSends, GetIsAnswered, GetEnds
  <2> QED
    BY <2>1, <2>2, <2>3, <2>4, <2>5 DEF GetInv
<1> QED
  BY <1>1, <1>2

\* Everything that the reads need.
ReadInv == Struct /\ AckInv /\ \A g \in GetReqs : GetInv(g)

\* At start nothing is stored, sent or read.
LEMMA ReadInvInit == Init => ReadInv
<1> SUFFICES ASSUME Init PROVE ReadInv
  OBVIOUS
<1>1. Struct
  BY StructInit
<1>2. AckInv
  BY DEF Init, AckInv, ServedHeld, AcksServed, BeforeServed, Reqs
<1>3. ASSUME NEW g \in GetReqs PROVE GetInv(g)
  <2>1. g \in Reqs
    BY DEF Reqs
  <2>2. pc[g] = "idle" /\ code[g] = 0 /\ before[g] = {}
    BY <2>1 DEF Init
  <2> QED
    BY <2>2 DEF GetInv, PassedUnheard, AnswerFresh, FoundServed, NotFoundAtEnd, NoneBeforeIdle
<1> QED
  BY <1>1, <1>2, <1>3 DEF ReadInv

\* No step of the data plane breaks what the reads need.
LEMMA ReadInvStep == ReadInv /\ [Next]_vars => ReadInv'
<1> SUFFICES ASSUME ReadInv, [Next]_vars PROVE ReadInv'
  OBVIOUS
<1>0. Struct /\ AckInv
  BY DEF ReadInv
<1>1. Struct'
  BY <1>0, StructStep
<1>2. AckInv'
  BY <1>0, AckedStep DEF AckInv
<1>3. ASSUME NEW g \in GetReqs PROVE GetInv(g)'
  BY <1>0, GetInvStep DEF ReadInv
<1> QED
  BY <1>1, <1>2, <1>3 DEF ReadInv

\* A GET that ends in 404 has put every owner that it shares with a write that
\* counts for it down as unheard: it has asked all of its owners.
LEMMA MissedUnheard ==
    ASSUME ReadInv, NEW g \in GetReqs, NEW s \in before[g], ~wiped, code[g] = 404
    PROVE  OwnerSet(g) \cap OwnerSet(s) \subseteq unheard[g]
<1>1. g \in Reqs /\ Struct /\ GetInv(g)
  BY DEF Reqs, ReadInv
<1>2. owners[g] \in Seq(Nodes) /\ IsInjective(owners[g]) /\ idx[g] \in Nat
  BY <1>1 DEF Struct, TypeOK, WalkInOwners
<1> DEFINE p == preferLocal(owners[g], coord[g])
<1>3. p \in Seq(Nodes) /\ Len(p) = Len(owners[g]) /\ ToSet(p) = OwnerSet(g)
  BY <1>2, PreferLocalProperties DEF OwnerSet
<1> HIDE DEF p
<1>4. ASSUME NEW o \in OwnerSet(g), o \in OwnerSet(s) PROVE o \in unheard[g]
  <2>1. PICK i \in 1 .. Len(owners[g]) : p[i] = o
    <3>1. DOMAIN p = 1 .. Len(owners[g])
      BY <1>3, LenProperties
    <3> QED
      BY <1>3, <1>4, <3>1 DEF ToSet
  <2>2. Asked(g, i) = o
    BY <2>1 DEF Asked, p
  <2>3. i < idx[g]
    <3>1. idx[g] > Len(owners[g]) /\ Len(owners[g]) \in Nat
      BY <1>1, <1>2, LenProperties DEF GetInv, NotFoundAtEnd
    <3> QED
      BY <1>2, <3>1
  <2> QED
    BY <1>1, <1>4, <2>2, <2>3 DEF GetInv, PassedUnheard
<1> QED
  BY <1>4

\* The reads of a cluster that lost no entry are fresh: whatever a GET returns
\* is not older than a write that all its owners acked before it began, as long
\* as its owners are among those of the write, and it misses such a write only
\* behind owners that it did not hear from.
THEOREM ReadsAreFresh == Spec => []FreshReads
<1>1. ReadInv => FreshReads
  <2> SUFFICES ASSUME ReadInv, NEW g \in GetReqs, NEW s \in SetReqs, ~wiped, s \in before[g]
               PROVE  /\ code[g] = 200 /\ OwnerSet(g) \subseteq OwnerSet(s) => reply[g].at >= body[s].at
                      /\ code[g] = 404 => OwnerSet(g) \cap OwnerSet(s) \subseteq unheard[g]
    BY DEF FreshReads
  <2>1. ASSUME code[g] = 200, OwnerSet(g) \subseteq OwnerSet(s) PROVE reply[g].at >= body[s].at
    BY <2>1 DEF ReadInv, GetInv, FoundServed
  <2>2. ASSUME code[g] = 404 PROVE OwnerSet(g) \cap OwnerSet(s) \subseteq unheard[g]
    BY <2>2, MissedUnheard
  <2> QED
    BY <2>1, <2>2
<1> QED
  BY <1>1, ReadInvInit, ReadInvStep, PTL DEF Spec

\* Once the repairs of a GET have been served, all its owners hold what it
\* returned or something newer, as long as no entry was lost.
THEOREM RepairsReachOwners == Spec => []RepairReaches
<1>1. ReadInv => RepairReaches
  <2> SUFFICES ASSUME ReadInv, NEW g \in GetReqs, code[g] = 200, ~wiped,
                      Cardinality({o \in OwnerSet(g) : wire[g][o] = "done"}) = Len(owners[g]) - 1,
                      NEW o \in OwnerSet(g)
               PROVE  store[o] # Absent /\ store[o].at >= reply[g].at
    BY DEF RepairReaches
  <2>0. g \in Reqs \ DelReqs /\ Struct /\ TypeOK /\ AckInv
    BY ReqsAssumption DEF ReadInv, Reqs, Struct
  <2>1. owners[g] \in Seq(Nodes) /\ IsInjective(owners[g]) /\ OwnerSet(g) \subseteq Nodes
    <3>1. owners[g] \in Seq(Nodes)
      BY <2>0 DEF TypeOK
    <3>2. IsInjective(owners[g])
      BY <2>0 DEF Struct, WalkInOwners
    <3> QED
      BY <2>0, <3>1, <3>2, OwnersAreNodes
  <2>2. PICK q \in OwnerSet(g) : wire[g][q] = "none" /\ store[q] # Absent /\ store[q].at >= reply[g].at
    BY DEF ReadInv, GetInv, FoundServed
  <2> DEFINE Done == {x \in OwnerSet(g) : wire[g][x] = "done"}
             Others == OwnerSet(g) \ {q}
  <2>3. IsFiniteSet(Others) /\ Cardinality(Others) = Len(owners[g]) - 1
    <3>1. IsFiniteSet(OwnerSet(g)) /\ Cardinality(OwnerSet(g)) = Len(owners[g])
      BY <2>1, InjectiveCardinality DEF OwnerSet
    <3>2. /\ IsFiniteSet(OwnerSet(g) \ {q})
          /\ Cardinality(OwnerSet(g) \ {q}) =
                IF q \in OwnerSet(g) THEN Cardinality(OwnerSet(g)) - 1 ELSE Cardinality(OwnerSet(g))
      BY <3>1, FS_RemoveElement, Zenon
    <3> QED
      BY <3>1, <3>2
  <2>4. Done \subseteq Others
    BY <2>2
  <2>5. Done = Others
    <3> HIDE DEF Done, Others
    <3>1. Cardinality(Done) = Cardinality(Others)
      BY <2>3 DEF Done
    <3> QED
      BY <2>3, <2>4, <3>1, FS_Subset
  <2>6. CASE o = q
    BY <2>2, <2>6
  <2>7. CASE o # q
    <3>1. wire[g][o] = "done" /\ o \in Nodes
      BY <2>1, <2>5, <2>7
    <3>2. store[o] # Absent /\ store[o].at >= body[g].at
      BY <2>0, <3>1 DEF AckInv, ServedHeld
    <3>3. body[g].at = reply[g].at
      BY <3>1 DEF ReadInv, GetInv, FoundServed
    <3> QED
      BY <3>2, <3>3
  <2> QED
    BY <2>6, <2>7
<1> QED
  BY <1>1, ReadInvInit, ReadInvStep, PTL DEF Spec
----------------------------------------------------------------------------
(* One node on the move. *)

\* The rings of the processes differ by node id alone, and will.
OneMoves(id) ==
    /\ \A n \in Nodes : Replicas(n) >= 2
    /\ \A n, m \in Nodes : Peers[n] \ {id} = Peers[m] \ {id}
    /\ \A c \in Changes : c.id = id

\* The first of the other nodes that the walk meets.
Anchor(id) == Met(Peers[CHOOSE n \in Nodes : TRUE] \ {id}, 1)

\* What a step does to rings, and where the owners of a new request come from.
RingsMove ==
    /\ \A n \in Nodes :
          \/ members'[n] = members[n] \/ members'[n] = Peers[n]
          \/ \E c \in Changes : \/ members'[n] = members[n] \cup {c.id}
                                \/ members'[n] = members[n] \ {c.id}
    /\ \A r \in Reqs : pc[r] = "idle" /\ pc'[r] # "idle" =>
          \E n \in Nodes : owners'[r] = RingOwners(n)

\* join, leave and a restart are the only steps that move a ring, and a handler
\* reads its owners once, when it starts.
LEMMA RingsMoveStep ==
    ASSUME Struct, [Next]_vars
    PROVE  RingsMove
<1> USE DEF Struct
<1>0. TypeOK
  OBVIOUS
<1>u. ASSUME UNCHANGED members, \A r \in Reqs : pc[r] = "idle" => pc'[r] = "idle"
      PROVE  RingsMove
  BY <1>u DEF RingsMove
<1>v. ASSUME UNCHANGED pc, 
             NEW n \in Nodes, NEW S, members' = [members EXCEPT ![n] = S],
             \/ S = Peers[n]
             \/ \E c \in Changes : S = members[n] \cup {c.id} \/ S = members[n] \ {c.id}
      PROVE  RingsMove
  BY <1>v DEF RingsMove, TypeOK
<1>b. ASSUME NEW r \in Reqs, NEW n \in Nodes, UNCHANGED members,
             \E x : pc' = [pc EXCEPT ![r] = x],
             owners' = [owners EXCEPT ![r] = RingOwners(n)]
      PROVE  RingsMove
  <2>1. \A q \in Reqs : q # r => pc'[q] = pc[q]
    BY <1>b DEF TypeOK
  <2>2. owners'[r] = RingOwners(n)
    BY <1>b DEF TypeOK
  <2> QED
    BY <1>b, <2>1, <2>2 DEF RingsMove
<1>1. CASE UNCHANGED vars
  BY <1>1, <1>u DEF vars, req_vars
<1>2. ASSUME NEW r \in SetReqs, NEW n \in Nodes, NEW at \in Stamps, NEW ttl \in TTLs,
             handleSet(r, n, at, ttl)
      PROVE  RingsMove
  BY <1>2, <1>b DEF handleSet, Fanout, Reqs
<1>3. ASSUME NEW r \in DelReqs, NEW n \in Nodes, handleDelete(r, n)
      PROVE  RingsMove
  BY <1>3, <1>b DEF handleDelete, Fanout, Reqs
<1>4. ASSUME NEW r \in GetReqs, NEW n \in Nodes, handleGet(r, n)
      PROVE  RingsMove
  BY <1>4, <1>b DEF handleGet, Reqs
<1>5. ASSUME NEW r \in Reqs, NEW o \in Nodes,
             \/ CollectAck(r, o) \/ CollectErr(r, o)
             \/ ServeWrite(r, o) \/ WriteUnknown(r, o)
      PROVE  RingsMove
  BY <1>5, <1>u DEF CollectAck, CollectErr, ServeWrite, WriteUnknown
<1>6. ASSUME NEW r \in Reqs,
             \/ FanoutDone(r)
             \/ WalkLocal(r) \/ WalkSkip(r) \/ WalkUnknown(r) \/ WalkSend(r)
             \/ ServeRead(r) \/ Recv(r) \/ ReadErr(r) \/ WalkEnd(r)
      PROVE  RingsMove
  <2>1. pc[r] # "idle" /\ UNCHANGED members
    BY <1>6 DEF FanoutDone, WalkLocal, WalkSkip, WalkUnknown, WalkSend, ServeRead, Recv, ReadErr,
       WalkEnd, Walking, PassOver
  <2>2. \E x : pc' = [pc EXCEPT ![r] = x]
    BY <1>6 DEF FanoutDone, WalkLocal, WalkSkip, WalkUnknown, WalkSend, ServeRead, Recv, ReadErr,
       WalkEnd, PassOver, Hit, Miss
  <2>3. \A q \in Reqs : q # r => pc'[q] = pc[q]
    BY <2>2 DEF TypeOK
  <2> QED
    BY <1>u, <2>1, <2>3
<1>7. ASSUME NEW n \in Nodes, Evict(n) \/ Sweep(n)
      PROVE  RingsMove
  BY <1>7, <1>u DEF Evict, Sweep, req_vars
<1>8. ASSUME NEW n \in Nodes, Crash(n)
      PROVE  RingsMove
  <2>1. \A r \in Reqs : pc[r] = "idle" => coord[r] # n
    BY AbsentAssumption DEF Handlers
  <2> QED
    BY <1>8, <1>u, <2>1 DEF Crash
<1>9. ASSUME NEW n \in Nodes, Restart(n)
      PROVE  RingsMove
  BY <1>9, <1>v DEF Restart, req_vars
<1>10. ASSUME NEW n \in Nodes, NEW id \in Nodes, join(n, id) \/ leave(n, id)
       PROVE  RingsMove
  <2>1. PICK c \in Changes : c.id = id
    BY <1>10 DEF join, leave
  <2>2. UNCHANGED pc /\ \/ members' = [members EXCEPT ![n] = members[n] \cup {c.id}]
                        \/ members' = [members EXCEPT ![n] = members[n] \ {c.id}]
    BY <1>10, <2>1 DEF join, leave, req_vars
  <2> QED
    BY <1>v, <2>1, <2>2
<1>11. CASE TimePasses
  BY <1>11, <1>u DEF TimePasses, req_vars
<1> HIDE DEF Struct
<1> QED
  BY <1>0, <1>1, <1>2, <1>3, <1>4, <1>5, <1>6, <1>7, <1>8, <1>9, <1>10, <1>11, StepCases, Zenon

\* A ring that differs from the configured one by node id alone has the anchor
\* among the owners: at most id comes before it.
LEMMA AnchorIsOwner ==
    ASSUME members \in [Nodes -> SUBSET Nodes], NEW id \in Nodes, OneMoves(id), NEW n \in Nodes,
           members[n] \ {id} = Peers[n] \ {id}
    PROVE  Anchor(id) \in ToSet(RingOwners(n))
<1> DEFINE C == Peers[n] \ {id}
           a == Met(C, 1)
           S == members[n]
<1>1. Anchor(id) = a
  <2>1. (CHOOSE m \in Nodes : TRUE) \in Nodes
    OBVIOUS
  <2>2. Peers[CHOOSE m \in Nodes : TRUE] \ {id} = C
    BY <2>1 DEF OneMoves
  <2> QED
    BY <2>2 DEF Anchor
<1>2. /\ C \in SUBSET Nodes /\ S \in SUBSET Nodes /\ S \ {id} = C
      /\ Peers[n] \in SUBSET Nodes
  BY PeersAssumption
<1>3. Replicas(n) \in Nat /\ Replicas(n) >= 2 /\ Cardinality(Peers[n]) >= 2 /\ IsFiniteSet(Peers[n])
  <2>1. Replicas(n) \in Nat /\ IsFiniteSet(Peers[n]) /\ Cardinality(Peers[n]) \in Nat
    BY ReplicasType
  <2>2. Replicas(n) >= 2
    BY DEF OneMoves
  <2>3. Replicas(n) <= Cardinality(Peers[n])
    BY ReplicasType
  <2> QED
    BY <2>1, <2>2, <2>3
<1>4. C # {}
  <2>1. CASE id \in Peers[n]
    <3>1. Cardinality(C) = Cardinality(Peers[n]) - 1
      BY <1>3, <2>1, FS_RemoveElement, Zenon
    <3>2. Cardinality(C) # 0
      BY <1>3, <3>1, FS_CardinalityType
    <3> HIDE DEF C
    <3> QED
      BY <3>2, FS_EmptySet
  <2>2. CASE id \notin Peers[n]
    BY <2>2, PeersAssumption
  <2> QED
    BY <2>1, <2>2
<1> HIDE DEF C, S
<1>5. Cardinality(C) \in Nat /\ 1 \in 1 .. Cardinality(C)
  <2>1. IsFiniteSet(C) /\ Cardinality(C) \in Nat
    BY <1>2, MetProperties
  <2>2. Cardinality(C) # 0
    BY <1>4, <2>1, FS_EmptySet
  <2> QED
    BY <2>1, <2>2
<1>6. a \in C
  BY <1>2, <1>5, MetProperties
<1>7. MetAhead(C, a) = 0
  <2>1. /\ MetAhead(C, a) \in 0 .. Cardinality(C) - 1
        /\ Met(C, MetAhead(C, a) + 1) = Met(C, 1)
    BY <1>2, <1>6, MetProperties
  <2>2. MetAhead(C, a) + 1 \in 1 .. Cardinality(C)
    BY <1>5, <2>1
  <2>3. MetAhead(C, a) + 1 = 1
    BY <1>2, <1>5, <2>1, <2>2, MetProperties
  <2> QED
    BY <2>1, <2>3
<1> HIDE DEF a
<1>8. \A x \in C : ~MetBefore(x, a)
  <2>1. IsFiniteSet({x \in C : MetBefore(x, a)})
    <3>1. IsFiniteSet(C)
      BY <1>2, MetProperties
    <3> QED
      BY <3>1, FS_Subset
  <2>2. {x \in C : MetBefore(x, a)} = {}
    BY <1>7, <2>1, FS_EmptySet DEF MetAhead
  <2> QED
    BY <2>2
<1>9. MetAhead(S, a) \in {0, 1}
  <2> DEFINE A == {x \in S : MetBefore(x, a)}
  <2>1. A \in SUBSET {id}
    BY <1>2, <1>8
  <2>2. IsFiniteSet({id}) /\ Cardinality({id}) = 1
    BY FS_Singleton
  <2> HIDE DEF A
  <2>3. IsFiniteSet(A) /\ Cardinality(A) <= 1
    BY <2>1, <2>2, FS_Subset
  <2>4. Cardinality(A) \in Nat
    BY <2>3, FS_CardinalityType
  <2> QED
    BY <2>3, <2>4 DEF MetAhead, A
<1>10. a \in S
  BY <1>2, <1>6
<1> DEFINE i == MetAhead(S, a) + 1
           k == Min({Replicas(n), Cardinality(S)})
<1>11. Cardinality(S) \in Nat /\ i \in 1 .. Cardinality(S) /\ i <= 2 /\ Met(S, i) = a
  <2>1. Cardinality(S) \in Nat /\ MetAhead(S, a) \in 0 .. Cardinality(S) - 1 /\ Met(S, i) = a
    BY <1>2, <1>10, MetProperties
  <2> QED
    BY <1>9, <2>1
<1> HIDE DEF i
<1>12. k \in Nat /\ i \in 1 .. k
  <2>1. k = IF Replicas(n) <= Cardinality(S) THEN Replicas(n) ELSE Cardinality(S)
    BY <1>3, <1>11, MinOfTwo
  <2> QED
    BY <1>3, <1>11, <2>1
<1>13. /\ RingOwners(n) \in Seq(Nodes) /\ Len(RingOwners(n)) = k
       /\ RingOwners(n)[i] = Met(S, i)
  BY <1>12, RingOwnersProperties DEF S
<1>14. i \in DOMAIN RingOwners(n)
  BY <1>12, <1>13, LenProperties
<1> QED
  BY <1>1, <1>11, <1>13, <1>14 DEF ToSet

\* The rings stay alike but for id, and every request has the anchor among its
\* owners.
Anchored(id) ==
    /\ \A n \in Nodes : members[n] \ {id} = Peers[n] \ {id}
    /\ \A r \in Reqs : pc[r] # "idle" => Anchor(id) \in OwnerSet(r)

\* While only id joins and leaves, every handler finds the anchor among its owners.
LEMMA AnchoredStep ==
    ASSUME Struct, [Next]_vars, NEW id \in Nodes, OneMoves(id), Anchored(id)
    PROVE  Anchored(id)'
<1>0. RingsMove /\ RequestsKeep /\ members \in [Nodes -> SUBSET Nodes]
  BY RingsMoveStep, RequestsKeepStep DEF Struct, TypeOK
<1>1. ASSUME NEW n \in Nodes PROVE members'[n] \ {id} = Peers[n] \ {id}
  <2>1. CASE members'[n] = members[n] \/ members'[n] = Peers[n]
    BY <2>1 DEF Anchored
  <2>2. ASSUME NEW c \in Changes,
               members'[n] = members[n] \cup {c.id} \/ members'[n] = members[n] \ {c.id}
        PROVE  members'[n] \ {id} = Peers[n] \ {id}
    <3>1. c.id = id
      BY DEF OneMoves
    <3>2. members'[n] \ {id} = members[n] \ {id}
      BY <2>2, <3>1
    <3> QED
      BY <3>2 DEF Anchored
  <2> QED
    BY <1>0, <2>1, <2>2 DEF RingsMove
<1>2. ASSUME NEW r \in Reqs, pc'[r] # "idle" PROVE Anchor(id) \in ToSet(owners'[r])
  <2>1. CASE pc[r] # "idle"
    BY <1>0, <2>1 DEF RequestsKeep, Anchored, OwnerSet
  <2>2. CASE pc[r] = "idle"
    <3>1. PICK n \in Nodes : owners'[r] = RingOwners(n)
      BY <1>0, <1>2, <2>2 DEF RingsMove
    <3>2. members[n] \ {id} = Peers[n] \ {id}
      BY DEF Anchored
    <3> QED
      BY <1>0, <3>1, <3>2, AnchorIsOwner
  <2> QED
    BY <2>1, <2>2
<1> QED
  BY <1>1, <1>2 DEF Anchored, OwnerSet, Anchor, Met, MetBefore

\* While the rings of the processes differ by one node that joins or leaves,
\* and there are two replicas or more, a GET that heard from all the owners it
\* asked does not miss a write that all its owners acked.
THEOREM JoinsHideNothing == Spec => []JoinHidesNothing
<1> DEFINE AllAnchored == \A id \in Nodes : OneMoves(id) => Anchored(id)
<1>1. Init => AllAnchored
  BY DEF Init, Anchored
<1>2. ReadInv /\ AllAnchored /\ [Next]_vars => AllAnchored'
  <2> SUFFICES ASSUME ReadInv, AllAnchored, [Next]_vars, NEW id \in Nodes, OneMoves(id)
               PROVE  Anchored(id)'
    BY DEF OneMoves, Replicas
  <2> QED
    BY AnchoredStep DEF ReadInv
<1>3. ReadInv /\ AllAnchored => JoinHidesNothing
  <2> SUFFICES ASSUME ReadInv, AllAnchored, NEW id \in Nodes, OneMoves(id),
                      NEW g \in GetReqs, code[g] = 404, unheard[g] = {}, ~wiped,
                      NEW s \in before[g]
               PROVE  FALSE
    BY DEF JoinHidesNothing, OneMoves
  <2>1. /\ g \in Reqs /\ s \in Reqs /\ pc[g] = "done" /\ pc[s] = "done"
    BY DEF ReadInv, Struct, TypeOK, Handlers, AckInv, BeforeServed, Reqs
  <2>2. Anchor(id) \in OwnerSet(g) \cap OwnerSet(s)
    BY <2>1 DEF Anchored
  <2> QED
    BY <2>2, MissedUnheard
<1> HIDE DEF AllAnchored
<1> QED
  BY <1>1, <1>2, <1>3, ReadInvInit, ReadInvStep, PTL DEF Spec
----------------------------------------------------------------------------
(* The data plane implements Copies. *)

\* The variables of Copies as the data plane has them.
IssuedView == {[val |-> s, at |-> body[s].at] : s \in {q \in SetReqs : pc[q] # "idle"}}
HeldView == [n \in Nodes |-> Stamped(store[n])]
PhaseView == [r \in GetReqs |-> Phase(r)]
AnswerView == [r \in GetReqs |-> Stamped(reply[r])]

\* The steps of Copies, in the variables of the data plane.
CopiesStep == [CopiesSpec!Next]_(CopiesSpec!vars)

\* Eight ways in which the four views may change, all of which Copies allows.
LEMMA StepOfCopies ==
    /\ /\ IssuedView' = IssuedView /\ HeldView' = HeldView
       /\ PhaseView' = PhaseView /\ AnswerView' = AnswerView
       => CopiesStep
    /\ \A v \in [val: SetReqs, at: Stamps] :
          /\ \A u \in IssuedView : u.val # v.val
          /\ IssuedView' = IssuedView \cup {v}
          /\ HeldView' = HeldView /\ PhaseView' = PhaseView /\ AnswerView' = AnswerView
          => CopiesStep
    /\ \A n \in Nodes, v \in IssuedView :
          /\ HeldView[n] # Absent => HeldView[n].at <= v.at
          /\ HeldView' = [HeldView EXCEPT ![n] = v]
          /\ IssuedView' = IssuedView /\ PhaseView' = PhaseView /\ AnswerView' = AnswerView
          => CopiesStep
    /\ \A n \in Nodes, dead \in SUBSET GetReqs :
          /\ HeldView' = [HeldView EXCEPT ![n] = Absent]
          /\ PhaseView' = [r \in GetReqs |-> IF r \in dead THEN "closed" ELSE PhaseView[r]]
          /\ IssuedView' = IssuedView /\ AnswerView' = AnswerView
          => CopiesStep
    /\ \A r \in GetReqs :
          /\ PhaseView[r] = "idle" /\ PhaseView' = [PhaseView EXCEPT ![r] = "open"]
          /\ IssuedView' = IssuedView /\ HeldView' = HeldView /\ AnswerView' = AnswerView
          => CopiesStep
    /\ \A r \in GetReqs, n \in Nodes, p \in {"open", "closed"} :
          /\ PhaseView[r] = "open" /\ HeldView[n] # Absent
          /\ AnswerView' = [AnswerView EXCEPT ![r] = HeldView[n]]
          /\ PhaseView' = [PhaseView EXCEPT ![r] = p]
          /\ IssuedView' = IssuedView /\ HeldView' = HeldView
          => CopiesStep
    /\ \A r \in GetReqs :
          /\ PhaseView[r] = "open" /\ AnswerView' = [AnswerView EXCEPT ![r] = Absent]
          /\ IssuedView' = IssuedView /\ HeldView' = HeldView /\ PhaseView' = PhaseView
          => CopiesStep
    /\ \A r \in GetReqs :
          /\ PhaseView[r] = "open" /\ PhaseView' = [PhaseView EXCEPT ![r] = "closed"]
          /\ IssuedView' = IssuedView /\ HeldView' = HeldView /\ AnswerView' = AnswerView
          => CopiesStep
BY DEF CopiesStep, CopiesSpec!Next, CopiesSpec!vars, CopiesSpec!Value, CopiesSpec!Issue,
   CopiesSpec!Adopt, CopiesSpec!Forget, CopiesSpec!Open, CopiesSpec!Sample, CopiesSpec!Drop,
   CopiesSpec!Close, IssuedView, HeldView, PhaseView, AnswerView

\* A node that forgets and takes no read with it.
LEMMA ForgetsOnly ==
    ASSUME NEW n \in Nodes, HeldView' = [HeldView EXCEPT ![n] = Absent],
           IssuedView' = IssuedView, PhaseView' = PhaseView, AnswerView' = AnswerView
    PROVE  CopiesStep
<1>1. PICK dead \in SUBSET GetReqs : dead = {}
  OBVIOUS
<1>2. PhaseView' = [r \in GetReqs |-> IF r \in dead THEN "closed" ELSE PhaseView[r]]
  BY <1>1 DEF PhaseView
<1> QED
  BY <1>2, StepOfCopies

\* What the views do when little happens.
LEMMA ViewsKeep ==
    ASSUME Struct, [Next]_vars
    PROVE  /\ (\A s \in SetReqs : pc[s] = "idle" => pc'[s] = "idle") => IssuedView' = IssuedView
           /\ store' = store => HeldView' = HeldView
           /\ (\A g \in GetReqs : Phase(g)' = Phase(g)) => PhaseView' = PhaseView
           /\ (\A g \in GetReqs : Stamped(reply'[g]) = Stamped(reply[g])) => AnswerView' = AnswerView
<1>1. ASSUME \A s \in SetReqs : pc[s] = "idle" => pc'[s] = "idle"
      PROVE  IssuedView' = IssuedView
  <2>1. \A s \in SetReqs : /\ pc'[s] # "idle" <=> pc[s] # "idle"
                           /\ pc[s] # "idle" => body'[s] = body[s]
    BY <1>1, RequestsKeepStep DEF RequestsKeep, Reqs
  <2> QED
    BY <2>1 DEF IssuedView
<1>2. ASSUME store' = store PROVE HeldView' = HeldView
  BY <1>2 DEF HeldView, Stamped
<1>3. ASSUME \A g \in GetReqs : Phase(g)' = Phase(g) PROVE PhaseView' = PhaseView
  BY <1>3 DEF PhaseView
<1>4. ASSUME \A g \in GetReqs : Stamped(reply'[g]) = Stamped(reply[g]) PROVE AnswerView' = AnswerView
  <2>1. \A g \in GetReqs : Stamped(reply[g])' = Stamped(reply[g])
    BY <1>4 DEF Stamped
  <2> QED
    BY <2>1 DEF AnswerView
<1> QED
  BY <1>1, <1>2, <1>3, <1>4

\* What they do when a step is one of GET r.
LEMMA ViewsOfGet ==
    ASSUME Struct, [Next]_vars, NEW r \in GetReqs, NEW x, NEW y,
           pc' = [pc EXCEPT ![r] = x], reply' = [reply EXCEPT ![r] = y]
    PROVE  /\ IssuedView' = IssuedView
           /\ x \in {"walk", "rpc", "replied"} => PhaseView' = [PhaseView EXCEPT ![r] = "open"]
           /\ x = "done" => PhaseView' = [PhaseView EXCEPT ![r] = "closed"]
           /\ AnswerView' = [AnswerView EXCEPT ![r] = Stamped(y)]
           /\ PhaseView[r] = Phase(r) /\ AnswerView[r] = Stamped(reply[r])
<1>0. TypeOK /\ r \in Reqs /\ r \notin SetReqs
  BY ReqsAssumption DEF Struct, Reqs
<1>1. /\ pc'[r] = x /\ reply'[r] = y
      /\ \A q \in Reqs : q # r => pc'[q] = pc[q] /\ reply'[q] = reply[q]
  BY <1>0 DEF TypeOK
<1>2. IssuedView' = IssuedView
  <2>1. \A s \in SetReqs : pc[s] = "idle" => pc'[s] = "idle"
    BY <1>0, <1>1 DEF Reqs
  <2> QED
    BY <2>1, ViewsKeep
<1>3. \A q \in GetReqs : q # r => Phase(q)' = Phase(q) /\ Stamped(reply[q])' = Stamped(reply[q])
  BY <1>1 DEF Phase, Stamped, Reqs
<1>4. Stamped(reply[r])' = Stamped(y)
  BY <1>1 DEF Stamped
<1>5. /\ x \in {"walk", "rpc", "replied"} => Phase(r)' = "open"
      /\ x = "done" => Phase(r)' = "closed"
  BY <1>1 DEF Phase
<1>6. AnswerView' = [AnswerView EXCEPT ![r] = Stamped(y)]
  BY <1>3, <1>4 DEF AnswerView
<1>7. PhaseView' = [PhaseView EXCEPT ![r] = Phase(r)']
  BY <1>3 DEF PhaseView
<1> QED
  BY <1>2, <1>5, <1>6, <1>7 DEF PhaseView, AnswerView

\* What they do when one store changes.
LEMMA ViewOfStore ==
    ASSUME TypeOK, NEW n \in Nodes, NEW e, store' = [store EXCEPT ![n] = e]
    PROVE  HeldView' = [HeldView EXCEPT ![n] = Stamped(e)]
<1>1. \A m \in Nodes : Stamped(store[m])' = IF m = n THEN Stamped(e) ELSE Stamped(store[m])
  BY DEF TypeOK, Stamped
<1> QED
  BY <1>1 DEF HeldView

\* store.Get forgets an expired entry.
LEMMA ViewOfStoreGet ==
    ASSUME TypeOK, NEW n \in Nodes, StoreGet(n)
    PROVE  /\ Live(n) => store' = store
           /\ ~Live(n) => HeldView' = [HeldView EXCEPT ![n] = Absent]
<1>1. CASE Live(n)
  BY <1>1, StoreGetEffect
<1>2. CASE ~Live(n)
  <2>1. store' = [store EXCEPT ![n] = Absent]
    BY <1>2 DEF StoreGet
  <2> QED
    BY <1>2, <2>1, ViewOfStore DEF Stamped
<1> QED
  BY <1>1, <1>2

\* A genuine value is one that a client has issued.
LEMMA GenuineIsIssued ==
    ASSUME NEW x, x.val \in SetReqs, Genuine(x)
    PROVE  [val |-> x.val, at |-> x.at] \in IssuedView
BY DEF Genuine, IssuedView

\* An owner that serves a write takes up what was issued, keeps what is newer,
\* or forgets.
LEMMA ServeWriteRefines ==
    ASSUME Struct, Provenance, [Next]_vars, NEW r \in Reqs, NEW o \in Nodes, ServeWrite(r, o)
    PROVE  CopiesStep
<1>0. TypeOK /\ wire[r][o] = "sent" /\ UNCHANGED <<pc, reply, body>>
  BY DEF Struct, ServeWrite
<1>1. IssuedView' = IssuedView /\ PhaseView' = PhaseView /\ AnswerView' = AnswerView
  BY <1>0, ViewsKeep DEF Phase
<1>2. CASE r \in DelReqs
  <2>1. store' = [store EXCEPT ![o] = Absent]
    BY <1>2 DEF ServeWrite
  <2>2. HeldView' = [HeldView EXCEPT ![o] = Absent]
    BY <1>0, <2>1, ViewOfStore DEF Stamped
  <2> QED
    BY <1>1, <2>2, ForgetsOnly
<1>3. CASE r \notin DelReqs
  <2>1. body[r] # Absent /\ StoreSet(o, r)
    BY <1>0, <1>3 DEF Struct, Wires, ServeWrite
  <2>2. /\ store \in [Nodes -> Entry \cup {Absent}] /\ store' \in [Nodes -> Entry \cup {Absent}]
        /\ \A m \in Nodes : m # o => store'[m] = store[m]
        /\ \/ store' = store
           \/ /\ store'[o] # Absent
              /\ store'[o].val = body[r].val /\ store'[o].at = body[r].at
              /\ store[o] # Absent => ~(store[o].at > body[r].at)
    BY <1>0, <2>1, StoreSetEffect DEF TypeOK
  <2>3. CASE store' = store
    BY <1>1, <2>3, ViewsKeep, StepOfCopies
  <2>4. CASE /\ store'[o] # Absent
             /\ store'[o].val = body[r].val /\ store'[o].at = body[r].at
             /\ store[o] # Absent => ~(store[o].at > body[r].at)
    <3> DEFINE v == [val |-> body[r].val, at |-> body[r].at]
    <3>1. store' = [store EXCEPT ![o] = store'[o]]
      BY <2>2
    <3>2. Stamped(store'[o]) = v
      BY <2>4 DEF Stamped
    <3>3. HeldView' = [HeldView EXCEPT ![o] = v]
      BY <1>0, <3>1, <3>2, ViewOfStore
    <3>4. v \in IssuedView
      <4>1. Genuine(body[r])
        BY <2>1 DEF Provenance, Genuine
      <4>2. body[r].val \in SetReqs
        BY <1>0, <2>1 DEF TypeOK, Body
      <4> QED
        BY <4>1, <4>2, GenuineIsIssued
    <3>5. HeldView[o] # Absent => HeldView[o].at <= v.at
      <4>1. HeldView[o] = Stamped(store[o])
        BY DEF HeldView
      <4>2. store[o] # Absent => store[o].at \in Nat /\ body[r].at \in Nat
        BY <1>0, <2>1, StampsAreNumbers
      <4> QED
        BY <2>4, <4>1, <4>2 DEF Stamped
    <3> HIDE DEF v
    <3> QED
      BY <1>1, <3>3, <3>4, <3>5, StepOfCopies
  <2> QED
    BY <2>2, <2>3, <2>4
<1> QED
  BY <1>2, <1>3

\* A GET looks into the store of its own process.
LEMMA WalkLocalRefines ==
    ASSUME Struct, [Next]_vars, NEW r \in Reqs, WalkLocal(r)
    PROVE  CopiesStep
<1>0. TypeOK /\ r \in GetReqs /\ coord[r] \in Nodes /\ pc[r] = "walk" /\ reply[r] = Absent
  BY DEF Struct, Handlers, WalkLocal, Walking
<1> DEFINE n == coord[r]
<1>1. StoreGet(n) /\ n \in Nodes
  BY <1>0 DEF WalkLocal
<1>2. Phase(r) = "open"
  BY <1>0 DEF Phase
<1>3. CASE Live(n)
  <2>1. /\ HitStep(r, store[n].val, store[n].at, n)
        /\ store[n] \in Entry /\ store' = store
    BY <1>0, <1>3, WalkLocalHit
  <2>2. PICK y \in Reply : /\ y.val = store[n].val /\ y.at = store[n].at
                           /\ reply' = [reply EXCEPT ![r] = y]
    BY <2>1 DEF HitStep
  <2>3. pc' = [pc EXCEPT ![r] = "done"]
    BY <2>1 DEF HitStep
  <2>4. /\ IssuedView' = IssuedView /\ PhaseView' = [PhaseView EXCEPT ![r] = "closed"]
        /\ AnswerView' = [AnswerView EXCEPT ![r] = Stamped(y)] /\ PhaseView[r] = "open"
    BY <1>0, <1>2, <2>2, <2>3, ViewsOfGet
  <2>5. HeldView' = HeldView /\ HeldView[n] = Stamped(store[n])
    BY <1>1, <2>1, ViewsKeep DEF HeldView
  <2>6. store[n] # Absent /\ y # Absent
    BY <2>1, AbsentAssumption
  <2>7. Stamped(store[n]) = [val |-> store[n].val, at |-> store[n].at] /\ Stamped(y) = Stamped(store[n])
    BY <2>2, <2>6 DEF Stamped
  <2>8. Stamped(store[n]) # Absent
    <3>1. store[n].val \in SetReqs /\ store[n].at \in Stamps
      BY <2>1 DEF Entry
    <3> QED
      BY <2>7, <3>1, AbsentAssumption
  <2> HIDE DEF n
  <2> QED
    BY <1>0, <1>1, <2>4, <2>5, <2>7, <2>8, StepOfCopies
<1>4. CASE ~Live(n)
  <2>1. pc' = [pc EXCEPT ![r] = "walk"] /\ reply' = reply
    BY <1>4 DEF WalkLocal, Miss
  <2>2. reply' = [reply EXCEPT ![r] = Absent]
    BY <1>0, <2>1 DEF TypeOK
  <2>3. /\ IssuedView' = IssuedView /\ PhaseView' = [PhaseView EXCEPT ![r] = "open"]
        /\ PhaseView[r] = "open"
    BY <1>0, <1>2, <2>1, <2>2, ViewsOfGet
  <2>4. PhaseView' = PhaseView
    BY <2>3 DEF PhaseView
  <2>5. AnswerView' = AnswerView
    BY <2>1, ViewsKeep
  <2>6. HeldView' = [HeldView EXCEPT ![n] = Absent]
    BY <1>0, <1>1, <1>4, ViewOfStoreGet
  <2> HIDE DEF n
  <2> QED
    BY <1>1, <2>3, <2>4, <2>5, <2>6, ForgetsOnly
<1> QED
  BY <1>3, <1>4

\* An owner answers a GET with what it holds.
LEMMA ServeReadRefines ==
    ASSUME Struct, [Next]_vars, NEW r \in Reqs, ServeRead(r)
    PROVE  CopiesStep
<1>0. TypeOK /\ r \in GetReqs /\ Target(r) \in Nodes /\ pc[r] = "rpc" /\ reply[r] = Absent
  BY AskedIsOwner DEF Struct, Handlers, ServeRead, Asking
<1>1. PICK n \in Nodes : n = Target(r)
  BY <1>0
<1>2. /\ StoreGet(n) /\ pc' = [pc EXCEPT ![r] = "replied"]
      /\ reply' = [reply EXCEPT ![r] = IF Live(n) THEN getPayload(store[n]) ELSE Absent]
  BY <1>1 DEF ServeRead
<1> DEFINE y == IF Live(n) THEN getPayload(store[n]) ELSE Absent
<1>3. /\ IssuedView' = IssuedView /\ PhaseView' = [PhaseView EXCEPT ![r] = "open"]
      /\ AnswerView' = [AnswerView EXCEPT ![r] = Stamped(y)]
      /\ PhaseView[r] = "open" /\ AnswerView[r] = Stamped(Absent)
  <2>1. Phase(r) = "open"
    BY <1>0 DEF Phase
  <2> HIDE DEF y
  <2> QED
    BY <1>0, <1>2, <2>1, ViewsOfGet DEF y
<1>4. CASE Live(n)
  <2>1. store[n] \in Entry /\ y \in Reply /\ y.val = store[n].val /\ y.at = store[n].at
    BY <1>0, <1>4, LiveIsFresh, PayloadType
  <2>2. HeldView' = HeldView /\ HeldView[n] = Stamped(store[n])
    BY <1>0, <1>2, <1>4, ViewOfStoreGet, ViewsKeep DEF HeldView
  <2> HIDE DEF y
  <2>3. store[n] # Absent /\ y # Absent
    BY <2>1, AbsentAssumption
  <2>4. Stamped(store[n]) = [val |-> store[n].val, at |-> store[n].at] /\ Stamped(y) = Stamped(store[n])
    BY <2>1, <2>3 DEF Stamped
  <2>5. Stamped(store[n]) # Absent
    <3>1. store[n].val \in SetReqs /\ store[n].at \in Stamps
      BY <2>1 DEF Entry
    <3> QED
      BY <2>4, <3>1, AbsentAssumption
  <2> QED
    BY <1>0, <1>3, <2>2, <2>4, <2>5, StepOfCopies
<1>5. CASE ~Live(n)
  <2>1. PhaseView' = PhaseView /\ AnswerView' = AnswerView
    BY <1>3, <1>5 DEF PhaseView, AnswerView
  <2>2. HeldView' = [HeldView EXCEPT ![n] = Absent]
    BY <1>0, <1>2, <1>5, ViewOfStoreGet
  <2> QED
    BY <1>3, <2>1, <2>2, ForgetsOnly
<1> QED
  BY <1>4, <1>5

\* A GET gives up on an owner: what it has been answered is dropped.
LEMMA PassOverRefines ==
    ASSUME Struct, [Next]_vars, NEW r \in Reqs, PassOver(r), pc[r] \in {"walk", "rpc", "replied"}
    PROVE  CopiesStep
<1>0. TypeOK /\ r \in GetReqs
  BY DEF Struct, Handlers
<1>1. /\ pc' = [pc EXCEPT ![r] = "walk"] /\ reply' = [reply EXCEPT ![r] = Absent] /\ store' = store
  BY DEF PassOver
<1>2. Phase(r) = "open"
  BY DEF Phase
<1>3. /\ IssuedView' = IssuedView /\ PhaseView' = [PhaseView EXCEPT ![r] = "open"]
      /\ AnswerView' = [AnswerView EXCEPT ![r] = Stamped(Absent)] /\ PhaseView[r] = "open"
  BY <1>0, <1>1, <1>2, ViewsOfGet
<1>4. PhaseView' = PhaseView
  BY <1>3 DEF PhaseView
<1>5. HeldView' = HeldView /\ Stamped(Absent) = Absent
  BY <1>1, ViewsKeep DEF Stamped
<1> QED
  BY <1>0, <1>3, <1>4, <1>5, StepOfCopies

\* The answer of an owner ends a GET, or sends it on.
LEMMA RecvRefines ==
    ASSUME Struct, [Next]_vars, NEW r \in Reqs, Recv(r)
    PROVE  CopiesStep
<1>0. TypeOK /\ r \in GetReqs /\ pc[r] = "replied" /\ store' = store
  BY DEF Struct, Handlers, Recv
<1>1. Phase(r) = "open" /\ HeldView' = HeldView
  BY <1>0, ViewsKeep DEF Phase
<1>2. CASE reply[r] # Absent
  <2>1. reply[r] \in Reply /\ HitStep(r, reply[r].val, reply[r].at, Target(r))
    BY <1>0, <1>2, RecvHit
  <2>2. PICK y \in Reply : /\ y.val = reply[r].val /\ y.at = reply[r].at
                           /\ reply' = [reply EXCEPT ![r] = y]
    BY <2>1 DEF HitStep
  <2>3. pc' = [pc EXCEPT ![r] = "done"]
    BY <2>1 DEF HitStep
  <2>4. /\ IssuedView' = IssuedView /\ PhaseView' = [PhaseView EXCEPT ![r] = "closed"]
        /\ AnswerView' = [AnswerView EXCEPT ![r] = Stamped(y)]
        /\ PhaseView[r] = "open" /\ AnswerView[r] = Stamped(reply[r])
    BY <1>0, <1>1, <2>2, <2>3, ViewsOfGet
  <2>5. Stamped(y) = Stamped(reply[r])
    BY <1>2, <2>2, AbsentAssumption DEF Stamped
  <2>6. AnswerView' = AnswerView
    BY <2>4, <2>5 DEF AnswerView
  <2> QED
    BY <1>0, <1>1, <2>4, <2>6, StepOfCopies
<1>3. CASE reply[r] = Absent
  <2>1. pc' = [pc EXCEPT ![r] = "walk"] /\ reply' = reply
    BY <1>3 DEF Recv, Miss
  <2>2. reply' = [reply EXCEPT ![r] = Absent]
    BY <1>0, <1>3, <2>1 DEF TypeOK
  <2>3. /\ IssuedView' = IssuedView /\ PhaseView' = [PhaseView EXCEPT ![r] = "open"]
        /\ PhaseView[r] = "open"
    BY <1>0, <1>1, <2>1, <2>2, ViewsOfGet
  <2>4. PhaseView' = PhaseView /\ AnswerView' = AnswerView
    BY <2>1, <2>3, ViewsKeep DEF PhaseView
  <2> QED
    BY <1>1, <2>3, <2>4, StepOfCopies
<1> QED
  BY <1>2, <1>3

\* The walk ends, or goes on to the next owner.
LEMMA WalkRefines ==
    ASSUME Struct, [Next]_vars, NEW r \in Reqs, WalkEnd(r) \/ WalkSend(r)
    PROVE  CopiesStep
<1>0. TypeOK /\ r \in GetReqs /\ pc[r] = "walk" /\ store' = store /\ reply' = reply
  BY DEF Struct, Handlers, WalkEnd, WalkSend, Walking
<1>1. Phase(r) = "open" /\ HeldView' = HeldView /\ AnswerView' = AnswerView
  BY <1>0, ViewsKeep DEF Phase
<1>2. reply' = [reply EXCEPT ![r] = reply[r]]
  BY <1>0 DEF TypeOK
<1>3. CASE WalkEnd(r)
  <2>1. pc' = [pc EXCEPT ![r] = "done"]
    BY <1>3 DEF WalkEnd
  <2>2. /\ IssuedView' = IssuedView /\ PhaseView' = [PhaseView EXCEPT ![r] = "closed"]
        /\ PhaseView[r] = "open"
    BY <1>0, <1>1, <1>2, <2>1, ViewsOfGet
  <2> QED
    BY <1>0, <1>1, <2>2, StepOfCopies
<1>4. CASE WalkSend(r)
  <2>1. pc' = [pc EXCEPT ![r] = "rpc"]
    BY <1>4 DEF WalkSend
  <2>2. /\ IssuedView' = IssuedView /\ PhaseView' = [PhaseView EXCEPT ![r] = "open"]
        /\ PhaseView[r] = "open"
    BY <1>0, <1>1, <1>2, <2>1, ViewsOfGet
  <2>3. PhaseView' = PhaseView
    BY <2>2 DEF PhaseView
  <2> QED
    BY <1>1, <2>2, <2>3, StepOfCopies
<1> QED
  BY <1>3, <1>4

\* The other steps.
LEMMA ArriveRefines ==
    ASSUME Struct, [Next]_vars, Arrive
    PROVE  CopiesStep
<1>0. TypeOK
  BY DEF Struct
<1>1. ASSUME NEW r \in SetReqs, NEW n \in Nodes, NEW at \in Stamps, NEW ttl \in TTLs,
             handleSet(r, n, at, ttl)
      PROVE  CopiesStep
  <2> DEFINE v == [val |-> r, at |-> at]
  <2>0. r \in Reqs /\ r \notin GetReqs /\ pc[r] = "idle"
    BY <1>1, ReqsAssumption DEF Reqs, handleSet, Fanout
  <2>1. /\ pc'[r] = "fanout" /\ body'[r].at = at
        /\ \A q \in Reqs : q # r => pc'[q] = pc[q] /\ body'[q] = body[q]
        /\ UNCHANGED <<store, reply>>
    BY <1>0, <1>1, <2>0 DEF handleSet, Fanout, TypeOK
  <2>2. PhaseView' = PhaseView /\ HeldView' = HeldView /\ AnswerView' = AnswerView
    <3>1. \A g \in GetReqs : Phase(g)' = Phase(g)
      BY <2>0, <2>1 DEF Phase, Reqs
    <3> QED
      BY <2>1, <3>1, ViewsKeep
  <2>3. IssuedView' = IssuedView \cup {v}
    <3>1. {q \in SetReqs : pc'[q] # "idle"} = {q \in SetReqs : pc[q] # "idle"} \cup {r}
      BY <2>0, <2>1 DEF Reqs
    <3>2. \A q \in {p \in SetReqs : pc[p] # "idle"} : body'[q] = body[q]
      BY <2>0, <2>1 DEF Reqs
    <3> QED
      BY <2>1, <3>1, <3>2 DEF IssuedView
  <2>4. \A u \in IssuedView : u.val # v.val
    BY <2>0 DEF IssuedView
  <2>5. v \in [val: SetReqs, at: Stamps]
    OBVIOUS
  <2> HIDE DEF v
  <2> QED
    BY <2>2, <2>3, <2>4, <2>5, StepOfCopies
<1>2. ASSUME NEW r \in DelReqs, NEW n \in Nodes, handleDelete(r, n)
      PROVE  CopiesStep
  <2>0. r \in Reqs /\ r \notin GetReqs /\ r \notin SetReqs
    BY ReqsAssumption DEF Reqs
  <2>1. /\ \A q \in Reqs : q # r => pc'[q] = pc[q]
        /\ UNCHANGED <<store, reply>>
    BY <1>0, <1>2, <2>0 DEF handleDelete, Fanout, TypeOK
  <2>2. /\ \A g \in GetReqs : Phase(g)' = Phase(g)
        /\ \A s \in SetReqs : pc[s] = "idle" => pc'[s] = "idle"
    BY <2>0, <2>1 DEF Phase, Reqs
  <2> QED
    BY <2>1, <2>2, ViewsKeep, StepOfCopies
<1>3. ASSUME NEW r \in GetReqs, NEW n \in Nodes, handleGet(r, n)
      PROVE  CopiesStep
  <2>0. r \in Reqs /\ pc[r] = "idle" /\ UNCHANGED <<store, reply>>
    BY <1>3 DEF Reqs, handleGet
  <2>1. Phase(r) = "idle"
    BY <2>0 DEF Phase
  <2>2. reply' = [reply EXCEPT ![r] = reply[r]] /\ pc' = [pc EXCEPT ![r] = "walk"]
    BY <1>0, <1>3, <2>0 DEF TypeOK, handleGet
  <2>3. /\ IssuedView' = IssuedView /\ PhaseView' = [PhaseView EXCEPT ![r] = "open"]
        /\ PhaseView[r] = "idle"
    BY <2>1, <2>2, ViewsOfGet
  <2>4. HeldView' = HeldView /\ AnswerView' = AnswerView
    BY <2>0, ViewsKeep
  <2> QED
    BY <2>3, <2>4, StepOfCopies
<1> QED
  BY <1>1, <1>2, <1>3 DEF Arrive

\* Nodes that lose entries.
LEMMA LossRefines ==
    ASSUME Struct, [Next]_vars, NEW n \in Nodes, Evict(n) \/ Sweep(n) \/ Crash(n)
    PROVE  CopiesStep
<1>0. TypeOK
  BY DEF Struct
<1>1. CASE Evict(n) \/ Sweep(n)
  <2>1. UNCHANGED <<pc, reply>>
    BY <1>1 DEF Evict, Sweep, req_vars
  <2>2. store' = [store EXCEPT ![n] = Absent]
    BY <1>1 DEF Evict, Sweep, StoreGet
  <2>3. HeldView' = [HeldView EXCEPT ![n] = Absent]
    BY <1>0, <2>2, ViewOfStore DEF Stamped
  <2>4. IssuedView' = IssuedView /\ PhaseView' = PhaseView /\ AnswerView' = AnswerView
    BY <2>1, ViewsKeep DEF Phase
  <2> QED
    BY <2>3, <2>4, ForgetsOnly
<1>2. CASE Crash(n)
  <2>1. /\ store' = [store EXCEPT ![n] = Absent] /\ UNCHANGED reply
        /\ pc' = [r \in Reqs |-> IF coord[r] = n /\ pc[r] # "done" THEN "dead" ELSE pc[r]]
    BY <1>2 DEF Crash
  <2>2. HeldView' = [HeldView EXCEPT ![n] = Absent] /\ AnswerView' = AnswerView
    BY <1>0, <2>1, ViewOfStore, ViewsKeep DEF Stamped
  <2>3. IssuedView' = IssuedView
    <3>1. \A s \in SetReqs : pc[s] = "idle" => coord[s] # n
      BY AbsentAssumption DEF Struct, Handlers, Reqs
    <3>2. \A s \in SetReqs : pc[s] = "idle" => pc'[s] = "idle"
      BY <2>1, <3>1 DEF Reqs
    <3> QED
      BY <3>2, ViewsKeep
  <2> DEFINE dead == {r \in GetReqs : coord[r] = n /\ pc[r] # "done"}
  <2>4. \A r \in GetReqs : Phase(r)' = IF r \in dead THEN "closed" ELSE Phase(r)
    BY <2>1 DEF Phase, Reqs
  <2>5. dead \in SUBSET GetReqs
    OBVIOUS
  <2> HIDE DEF dead
  <2>6. PhaseView' = [r \in GetReqs |-> IF r \in dead THEN "closed" ELSE PhaseView[r]]
    BY <2>4 DEF PhaseView
  <2> QED
    BY <2>2, <2>3, <2>5, <2>6, StepOfCopies
<1> QED
  BY <1>1, <1>2

\* Steps that show in no view.
LEMMA StepsUnseen ==
    ASSUME Struct, [Next]_vars, UNCHANGED <<store, reply>>, \A q \in Reqs \ DelReqs : pc'[q] = pc[q]
    PROVE  CopiesStep
<1>1. \A g \in GetReqs : Phase(g)' = Phase(g)
  BY ReqsAssumption DEF Phase, Reqs
<1>2. \A s \in SetReqs : pc[s] = "idle" => pc'[s] = "idle"
  BY ReqsAssumption DEF Reqs
<1> QED
  BY <1>1, <1>2, ViewsKeep, StepOfCopies

\* fanout ends.
LEMMA FanoutDoneRefines ==
    ASSUME Struct, [Next]_vars, NEW r \in Reqs, FanoutDone(r)
    PROVE  CopiesStep
<1>0. TypeOK /\ r \notin GetReqs /\ pc[r] = "fanout" /\ UNCHANGED <<store, reply>>
  BY DEF Struct, Handlers, FanoutDone
<1>1. pc'[r] = "done" /\ \A q \in Reqs : q # r => pc'[q] = pc[q]
  BY <1>0 DEF FanoutDone, TypeOK
<1>2. /\ \A g \in GetReqs : Phase(g)' = Phase(g)
      /\ \A s \in SetReqs : pc[s] = "idle" => pc'[s] = "idle"
  BY <1>0, <1>1 DEF Phase, Reqs
<1> QED
  BY <1>0, <1>2, ViewsKeep, StepOfCopies

\* Every step of the data plane is a step of Copies or changes nothing there.
LEMMA StepRefines ==
    ASSUME Struct, Provenance, [Next]_vars
    PROVE  CopiesStep
<1>0. TypeOK
  BY DEF Struct
<1>1. CASE UNCHANGED vars
  BY <1>1, StepsUnseen DEF vars, req_vars
<1>2. ASSUME NEW r \in SetReqs, NEW n \in Nodes, NEW at \in Stamps, NEW ttl \in TTLs,
             handleSet(r, n, at, ttl)
      PROVE  CopiesStep
  BY <1>2, ArriveRefines DEF Arrive
<1>3. ASSUME NEW r \in DelReqs, NEW n \in Nodes, handleDelete(r, n)
      PROVE  CopiesStep
  BY <1>3, ArriveRefines DEF Arrive
<1>4. ASSUME NEW r \in GetReqs, NEW n \in Nodes, handleGet(r, n)
      PROVE  CopiesStep
  BY <1>4, ArriveRefines DEF Arrive
<1>5. ASSUME NEW r \in Reqs, NEW o \in Nodes,
             CollectAck(r, o) \/ CollectErr(r, o) \/ WriteUnknown(r, o)
      PROVE  CopiesStep
  <2>1. UNCHANGED <<store, reply, pc>>
    BY <1>5 DEF CollectAck, CollectErr, WriteUnknown
  <2> QED
    BY <2>1, StepsUnseen
<1>6. ASSUME NEW r \in Reqs, NEW o \in Nodes, ServeWrite(r, o)
      PROVE  CopiesStep
  BY <1>6, ServeWriteRefines
<1>7. ASSUME NEW r \in Reqs, WalkSkip(r) \/ WalkUnknown(r) \/ ReadErr(r)
      PROVE  CopiesStep
  BY <1>7, PassOverRefines DEF WalkSkip, WalkUnknown, ReadErr, Walking
<1>8. ASSUME NEW r \in Reqs,
             \/ FanoutDone(r) \/ WalkLocal(r) \/ WalkSend(r)
             \/ ServeRead(r) \/ Recv(r) \/ WalkEnd(r)
      PROVE  CopiesStep
  BY <1>8, FanoutDoneRefines, WalkLocalRefines, WalkRefines, ServeReadRefines, RecvRefines
<1>9. ASSUME NEW n \in Nodes, Evict(n) \/ Sweep(n) \/ Crash(n)
      PROVE  CopiesStep
  BY <1>9, LossRefines
<1>10. ASSUME NEW n \in Nodes, NEW id \in Nodes, Restart(n) \/ join(n, id) \/ leave(n, id)
       PROVE  CopiesStep
  BY <1>10, StepsUnseen DEF Restart, join, leave, req_vars
<1>11. CASE TimePasses
  BY <1>11, StepsUnseen DEF TimePasses, req_vars
<1> QED
  BY <1>0, <1>1, <1>2, <1>3, <1>4, <1>5, <1>6, <1>7, <1>8, <1>9, <1>10, <1>11, StepCases, Zenon

\* Through fan-outs served late, repairs, deletes, expiry, crashes and changing
\* rings the data plane is an implementation of module Copies.
THEOREM ImplementsCopies == Spec => RefinesCopies
<1>1. Init => CopiesSpec!Init
  BY DEF Init, CopiesSpec!Init, Stamped, Phase, Reqs
<1>2. Init => Struct /\ Provenance
  <2>1. Init => Provenance
    BY DEF Init, Provenance
  <2> QED
    BY <2>1, StructInit
<1>3. Struct /\ Provenance /\ [Next]_vars => Struct' /\ Provenance'
  BY StructStep, ProvenanceStep
<1>4. Struct /\ Provenance /\ [Next]_vars => [CopiesSpec!Next]_(CopiesSpec!vars)
  BY StepRefines DEF CopiesStep
<1> QED
  BY <1>1, <1>2, <1>3, <1>4, PTL DEF Spec, RefinesCopies, CopiesSpec!Spec
============================================================================
