----------------------------- MODULE RingProofs -----------------------------
(***************************************************************************)
(* Proofs about the ring, for every set of identifiers, number of virtual  *)
(* nodes, size of the circle and hash function.                            *)
(***************************************************************************)
EXTENDS Ring, ListFacts

HashOK == hash \in [Ids -> [1 .. vnodesPerNode -> Hashes]]

(* Building the ring. *)

\* Two placements of different indices are different virtual nodes.
LEMMA VnodesFinite ==
    ASSUME NEW S \in SUBSET Ids, IsFiniteSet(S)
    PROVE  /\ IsFiniteSet(vnodes(S))
           /\ Cardinality(vnodes(S)) = Cardinality(S) * vnodesPerNode
<1> DEFINE I == 1 .. vnodesPerNode
           V == vnodes(S)
           f == [p \in S \X I |-> [hash |-> hash[p[1]][p[2]], id |-> p[1], i |-> p[2]]]
<1>1. IsFiniteSet(I) /\ Cardinality(I) = vnodesPerNode
  BY RingAssumption, FS_Interval
<1>2. IsFiniteSet(S \X I) /\ Cardinality(S \X I) = Cardinality(S) * vnodesPerNode
  <2> HIDE DEF I
  <2> QED
    BY <1>1, FS_Product
<1>3. f \in Bijection(S \X I, V)
  <2>1. ASSUME NEW p \in S \X I PROVE f[p] \in V
    <3>1. p[1] \in S /\ p[2] \in I
      OBVIOUS
    <3> QED
      BY <3>1 DEF vnodes
  <2>2. ASSUME NEW p \in S \X I, NEW q \in S \X I, f[p] = f[q] PROVE p = q
    <3>1. f[p].id = p[1] /\ f[p].i = p[2] /\ f[q].id = q[1] /\ f[q].i = q[2]
      OBVIOUS
    <3>2. p = <<p[1], p[2]>> /\ q = <<q[1], q[2]>>
      OBVIOUS
    <3> HIDE DEF f
    <3> QED
      BY <2>2, <3>1, <3>2
  <2>3. ASSUME NEW v \in V PROVE \E p \in S \X I : f[p] = v
    <3>1. PICK id \in S, i \in I : v = [hash |-> hash[id][i], id |-> id, i |-> i]
      BY DEF vnodes
    <3>2. <<id, i>> \in S \X I /\ f[<<id, i>>] = v
      BY <3>1
    <3> QED
      BY <3>2
  <2>4. f \in [S \X I -> V]
    BY <2>1
  <2>5. PICK X : X = S \X I
    OBVIOUS
  <2> HIDE DEF f, I, V
  <2>6. f \in Injection(X, V)
    BY <2>2, <2>4, <2>5 DEF Injection, IsInjective
  <2>7. f \in Surjection(X, V)
    BY <2>3, <2>4, <2>5 DEF Surjection
  <2> QED
    BY <2>5, <2>6, <2>7 DEF Bijection
<1>4. ExistsBijection(S \X I, V)
  BY <1>3 DEF ExistsBijection
<1> HIDE DEF I, f
<1> QED
  BY <1>2, <1>4, FS_Bijection

\* A virtual node.
LEMMA VnodeType ==
    ASSUME HashOK, NEW S \in SUBSET Ids, NEW v \in vnodes(S)
    PROVE  /\ v.id \in S /\ v.id \in Nat /\ v.i \in 1 .. vnodesPerNode /\ v.i \in Nat
           /\ v.hash = hash[v.id][v.i] /\ v.hash \in Hashes /\ v.hash \in Nat
           /\ v = [hash |-> v.hash, id |-> v.id, i |-> v.i]
<1>1. PICK id \in S, i \in 1 .. vnodesPerNode : v = [hash |-> hash[id][i], id |-> id, i |-> i]
  BY DEF vnodes
<1>2. hash[id][i] \in Hashes
  BY DEF HashOK
<1>3. hash[id][i] \in Nat
  BY <1>2, RingAssumption DEF Hashes
<1> QED
  BY <1>1, <1>2, <1>3, IdsAssumption, RingAssumption

\* What the data plane needs of a ring rg for the nodes S: it is sorted, and
\* holds the placements of the nodes and nothing else.
Placed(rg, S) ==
    /\ rg \in Seq([hash: Hashes, id: S])
    /\ \A i, j \in 1 .. Len(rg) : i < j =>
          rg[i].hash < rg[j].hash \/ (rg[i].hash = rg[j].hash /\ rg[i].id <= rg[j].id)
    /\ \A k \in 1 .. Len(rg) : \E i \in 1 .. vnodesPerNode : rg[k].hash = hash[rg[k].id][i]
    /\ \A id \in S, i \in 1 .. vnodesPerNode :
          \E k \in 1 .. Len(rg) : rg[k].id = id /\ rg[k].hash = hash[id][i]

\* Nothing is on it twice, but where virtual nodes of one node collide.
Numbered(rg, S) ==
    \A id \in S, h \in Hashes :
        Cardinality({k \in DOMAIN rg : rg[k] = [hash |-> h, id |-> id]})
          = Cardinality({i \in 1 .. vnodesPerNode : hash[id][i] = h})

\* rebuildLocked sorts the placements.
LEMMA RebuildProperties ==
    ASSUME HashOK, NEW S \in SUBSET Ids, IsFiniteSet(S)
    PROVE  /\ Placed(rebuildLocked(S), S)
           /\ Numbered(rebuildLocked(S), S)
<1> DEFINE V == vnodes(S)
           N == Cardinality(V)
           At(k) == CHOOSE v \in V : Cardinality({w \in V : Before(w, v)}) = k - 1
           rg == rebuildLocked(S)
<1>1. IsFiniteSet(V) /\ N = Cardinality(S) * vnodesPerNode /\ N \in Nat
  BY VnodesFinite, FS_CardinalityType
<1>2. PICK R : \A v, w \in V : <<v, w>> \in R <=> Before(v, w)
  <2> DEFINE Q == {p \in V \X V : Before(p[1], p[2])}
  <2>1. \A v, w \in V : <<v, w>> \in Q <=> Before(v, w)
    OBVIOUS
  <2> QED
    BY <2>1
<1>3. Orders(R, V)
  <2>1. ASSUME NEW v \in V PROVE <<v, v>> \notin R
    BY <1>2, VnodeType DEF Before
  <2>2. ASSUME NEW v \in V, NEW w \in V, v # w PROVE <<v, w>> \in R \/ <<w, v>> \in R
    <3>1. v.hash # w.hash \/ v.id # w.id \/ v.i # w.i
      BY <2>2, VnodeType
    <3>2. /\ v.hash \in Nat /\ w.hash \in Nat /\ v.id \in Nat /\ w.id \in Nat
          /\ v.i \in Nat /\ w.i \in Nat
      BY VnodeType
    <3>3. Before(v, w) \/ Before(w, v)
      BY <3>1, <3>2 DEF Before
    <3> QED
      BY <1>2, <3>3
  <2>3. ASSUME NEW v \in V, NEW w \in V, NEW x \in V, <<v, w>> \in R, <<w, x>> \in R
        PROVE  <<v, x>> \in R
    <3>1. Before(v, w) /\ Before(w, x)
      BY <1>2, <2>3
    <3>2. /\ v.hash \in Nat /\ w.hash \in Nat /\ v.id \in Nat /\ w.id \in Nat
          /\ v.i \in Nat /\ w.i \in Nat /\ x.hash \in Nat /\ x.id \in Nat /\ x.i \in Nat
      BY VnodeType
    <3>3. Before(v, x)
      BY <3>1, <3>2 DEF Before
    <3> QED
      BY <1>2, <3>3
  <2> HIDE DEF V
  <2> QED
    BY <2>1, <2>2, <2>3 DEF Orders
<1>4. ASSUME NEW v \in V
      PROVE  Cardinality({w \in V : Before(w, v)}) = Rank(V, R, v)
  <2>1. {w \in V : Before(w, v)} = {w \in V : <<w, v>> \in R}
    BY <1>2
  <2> QED
    BY <2>1 DEF Rank
<1> HIDE DEF V
<1>5. ASSUME NEW k \in 1 .. N
      PROVE  At(k) \in V /\ Rank(V, R, At(k)) = k - 1
  <2>1. k - 1 \in 0 .. Cardinality(V) - 1
    BY <1>1
  <2>2. PICK v \in V : Rank(V, R, v) = k - 1
    BY <1>1, <1>3, <2>1, EveryRankTaken
  <2>3. \E x \in V : Cardinality({w \in V : Before(w, x)}) = k - 1
    BY <1>4, <2>2
  <2>4. At(k) \in V /\ Cardinality({w \in V : Before(w, At(k))}) = k - 1
    BY <2>3
  <2> HIDE DEF At
  <2> QED
    BY <1>4, <2>4
<1>6. rg = [k \in 1 .. N |-> [hash |-> At(k).hash, id |-> At(k).id]]
  BY DEF rebuildLocked, V
<1> HIDE DEF At, rg, N
<1>7. ASSUME NEW k \in 1 .. N
      PROVE  /\ At(k).hash \in Hashes /\ At(k).id \in S
             /\ At(k).i \in 1 .. vnodesPerNode /\ At(k).hash = hash[At(k).id][At(k).i]
             /\ At(k).hash \in Nat /\ At(k).id \in Nat
  <2>1. At(k) \in V
    BY <1>5
  <2> QED
    BY <2>1, VnodeType DEF V
<1>8. /\ rg \in Seq([hash: Hashes, id: S]) /\ Len(rg) = N
      /\ \A k \in 1 .. N : rg[k].hash = At(k).hash /\ rg[k].id = At(k).id
  <2>1. \A k \in 1 .. N : [hash |-> At(k).hash, id |-> At(k).id] \in [hash: Hashes, id: S]
    BY <1>7
  <2>2. rg \in [1 .. N -> [hash: Hashes, id: S]]
    BY <1>6, <2>1
  <2>3. rg \in Seq([hash: Hashes, id: S]) /\ Len(rg) = N
    <3>1. PICK T : T = [hash: Hashes, id: S]
      OBVIOUS
    <3>2. rg \in [1 .. N -> T] /\ DOMAIN rg = 1 .. N
      BY <2>2, <3>1
    <3>3. rg \in Seq(T) /\ Len(rg) = N
      BY <1>1, <3>2
    <3> QED
      BY <3>1, <3>3
  <2>4. \A k \in 1 .. N : rg[k] = [hash |-> At(k).hash, id |-> At(k).id]
    BY <1>6
  <2> QED
    BY <2>3, <2>4
<1>9. ASSUME NEW i \in 1 .. N, NEW j \in 1 .. N, i < j
      PROVE  rg[i].hash < rg[j].hash \/ (rg[i].hash = rg[j].hash /\ rg[i].id <= rg[j].id)
  <2>1. At(i) \in V /\ At(j) \in V /\ Rank(V, R, At(i)) < Rank(V, R, At(j))
    BY <1>1, <1>5, <1>9
  <2>2. At(i) # At(j) /\ ~(Rank(V, R, At(j)) < Rank(V, R, At(i)))
    <3>1. Rank(V, R, At(i)) \in Int /\ Rank(V, R, At(j)) \in Int
      BY <1>1, <1>5
    <3> QED
      BY <2>1, <3>1
  <2>3. <<At(j), At(i)>> \notin R
    BY <1>1, <1>3, <2>1, <2>2, RankProperties
  <2>4. <<At(i), At(j)>> \in R
    BY <1>3, <2>1, <2>2, <2>3 DEF Orders
  <2>5. Before(At(i), At(j))
    BY <1>2, <2>1, <2>4
  <2> QED
    BY <1>7, <1>8, <2>5 DEF Before
<1>10. ASSUME NEW id \in S, NEW i \in 1 .. vnodesPerNode
       PROVE  \E k \in 1 .. N : rg[k].id = id /\ rg[k].hash = hash[id][i]
  <2>1. PICK v \in V : v = [hash |-> hash[id][i], id |-> id, i |-> i]
    <3>1. [hash |-> hash[id][i], id |-> id, i |-> i] \in vnodes(S)
      BY DEF vnodes
    <3> QED
      BY <3>1 DEF V
  <2>2. Rank(V, R, v) \in 0 .. Cardinality(V) - 1
    BY <1>1, <1>3, RankProperties
  <2>3. PICK k \in 1 .. N : k = Rank(V, R, v) + 1
    BY <1>1, <2>2 DEF N
  <2>4. At(k) \in V /\ Rank(V, R, At(k)) = Rank(V, R, v)
    BY <1>5, <2>2, <2>3
  <2>5. At(k) = v
    BY <1>1, <1>3, <2>4, RankProperties
  <2>6. rg[k].id = id /\ rg[k].hash = hash[id][i]
    BY <1>8, <2>1, <2>5
  <2> QED
    BY <2>6
<1>11. \A k \in 1 .. N : \E i \in 1 .. vnodesPerNode : rg[k].hash = hash[rg[k].id][i]
  BY <1>7, <1>8
<1>12. Placed(rg, S)
  BY <1>8, <1>9, <1>10, <1>11 DEF Placed
<1>13. ASSUME NEW id \in S, NEW h \in Hashes
       PROVE  Cardinality({k \in DOMAIN rg : rg[k] = [hash |-> h, id |-> id]})
                = Cardinality({i \in 1 .. vnodesPerNode : hash[id][i] = h})
  <2> DEFINE K == {k \in DOMAIN rg : rg[k] = [hash |-> h, id |-> id]}
             I == {i \in 1 .. vnodesPerNode : hash[id][i] = h}
             f == [k \in K |-> At(k).i]
  <2>0. DOMAIN rg = 1 .. N /\ \A k \in 1 .. N : rg[k] = [hash |-> At(k).hash, id |-> At(k).id]
    BY <1>6, Zenon
  <2>1. ASSUME NEW k \in K
        PROVE  k \in 1 .. N /\ At(k).hash = h /\ At(k).id = id /\ f[k] = At(k).i
    <3>1. k \in 1 .. N /\ [hash |-> At(k).hash, id |-> At(k).id] = [hash |-> h, id |-> id]
      BY <2>0
    <3>2. /\ [hash |-> At(k).hash, id |-> At(k).id].hash = At(k).hash
          /\ [hash |-> At(k).hash, id |-> At(k).id].id = At(k).id
      OBVIOUS
    <3> QED
      BY <3>1, <3>2
  <2>2. ASSUME NEW k \in K PROVE f[k] \in I
    BY <1>7, <2>1
  <2>3. ASSUME NEW j \in K, NEW k \in K, f[j] = f[k] PROVE j = k
    <3>1. /\ j \in 1 .. N /\ k \in 1 .. N /\ At(j).i = At(k).i
          /\ At(j).hash = At(k).hash /\ At(j).id = At(k).id
      BY <2>1, <2>3
    <3>2. At(j) \in vnodes(S) /\ At(k) \in vnodes(S)
      BY <1>5, <3>1 DEF V
    <3>3. At(j) = At(k)
      <4>1. PICK v \in vnodes(S) : v = At(j)
        BY <3>2
      <4>2. PICK w \in vnodes(S) : w = At(k)
        BY <3>2
      <4>3. v = [hash |-> v.hash, id |-> v.id, i |-> v.i] /\ w = [hash |-> w.hash, id |-> w.id, i |-> w.i]
        BY VnodeType
      <4> QED
        BY <3>1, <4>1, <4>2, <4>3
    <3>4. Rank(V, R, At(j)) = j - 1 /\ Rank(V, R, At(k)) = k - 1
      BY <1>5, <3>1
    <3> QED
      BY <1>1, <3>1, <3>3, <3>4 DEF N
  <2>4. ASSUME NEW i \in I PROVE \E k \in K : f[k] = i
    <3>1. i \in 1 .. vnodesPerNode /\ hash[id][i] = h
      OBVIOUS
    <3>2. PICK v \in V : v = [hash |-> h, id |-> id, i |-> i]
      <4>1. [hash |-> hash[id][i], id |-> id, i |-> i] \in vnodes(S)
        BY <3>1 DEF vnodes
      <4> QED
        BY <3>1, <4>1 DEF V
    <3>3. Rank(V, R, v) \in 0 .. Cardinality(V) - 1
      BY <1>1, <1>3, RankProperties
    <3>4. PICK k \in 1 .. N : k = Rank(V, R, v) + 1
      BY <1>1, <3>3 DEF N
    <3>5. At(k) \in V /\ Rank(V, R, At(k)) = Rank(V, R, v)
      BY <1>5, <3>3, <3>4
    <3>6. At(k) = v
      BY <1>1, <1>3, <3>5, RankProperties
    <3>7. rg[k] = [hash |-> h, id |-> id] /\ At(k).i = i
      BY <1>8, <2>0, <3>2, <3>6
    <3>8. k \in K
      BY <2>0, <3>7
    <3> QED
      BY <3>7, <3>8
  <2>5. IsFiniteSet(I)
    <3>1. IsFiniteSet(1 .. vnodesPerNode)
      BY RingAssumption, FS_Interval
    <3> QED
      BY <3>1, FS_Subset
  <2>6. f \in [K -> I]
    BY <2>2
  <2> HIDE DEF f, K, I
  <2>7. f \in Injection(K, I) /\ f \in Surjection(K, I)
    BY <2>3, <2>4, <2>6 DEF Injection, IsInjective, Surjection
  <2>8. ExistsBijection(K, I)
    BY <2>7 DEF Bijection, ExistsBijection
  <2>9. IsFiniteSet(K)
    BY <2>5, <2>7, FS_Injection
  <2>10. Cardinality(K) = Cardinality(I)
    BY <2>8, <2>9, FS_Bijection
  <2> QED
    BY <2>10 DEF K, I
<1>14. Numbered(rg, S)
  BY <1>13 DEF Numbered
<1> QED
  BY <1>12, <1>14 DEF rg
----------------------------------------------------------------------------
(* Walking around the ring. *)

\* How far clockwise of h the place a is.
Gap(h, a) == (a - h) % HashSpace

\* There is one wrap-around at most.
LEMMA GapValue ==
    ASSUME NEW h \in Hashes, NEW a \in Hashes
    PROVE  /\ a \in Nat /\ h \in Nat /\ HashSpace \in Nat /\ a < HashSpace /\ h < HashSpace
           /\ Gap(h, a) = IF a >= h THEN a - h ELSE a - h + HashSpace
           /\ Gap(h, a) \in 0 .. HashSpace - 1
<1>1. a \in Nat /\ h \in Nat /\ HashSpace \in Nat \ {0} /\ a < HashSpace /\ h < HashSpace
  BY RingAssumption DEF Hashes
<1> DEFINE d == a - h
           q == d \div HashSpace
<1>2. /\ q \in Int /\ d % HashSpace \in 0 .. HashSpace - 1
      /\ d = HashSpace * q + (d % HashSpace)
  BY <1>1
<1>3. CASE a >= h
  <2>1. d \in 0 .. HashSpace - 1
    BY <1>1, <1>3
  <2>2. d % HashSpace = d
    BY <1>1, <2>1
  <2> QED
    BY <1>1, <1>2, <1>3, <2>2 DEF Gap
<1>4. CASE ~(a >= h)
  <2>1. d + HashSpace \in 0 .. HashSpace - 1 /\ d \in Int
    BY <1>1, <1>4
  <2>2. d % HashSpace = d + HashSpace
    BY <1>1, <2>1
  <2> QED
    BY <1>1, <1>2, <1>4, <2>2 DEF Gap
<1> QED
  BY <1>3, <1>4

\* What is on a ring.
LEMMA PlacedType ==
    ASSUME NEW rg, NEW S \in SUBSET Ids, Placed(rg, S)
    PROVE  /\ Len(rg) \in Nat /\ DOMAIN rg = 1 .. Len(rg)
           /\ \A k \in 1 .. Len(rg) : /\ rg[k] \in [hash: Hashes, id: S]
                                      /\ rg[k].hash \in Hashes /\ rg[k].hash \in Nat
                                      /\ rg[k].id \in S /\ rg[k].id \in Nat
<1>1. rg \in Seq([hash: Hashes, id: S])
  BY DEF Placed
<1>2. PICK T : T = [hash: Hashes, id: S]
  OBVIOUS
<1>3. Len(rg) \in Nat /\ DOMAIN rg = 1 .. Len(rg) /\ \A k \in 1 .. Len(rg) : rg[k] \in T
  BY <1>1, <1>2, LenProperties, ElementOfSeq
<1>4. \A x \in T : x.hash \in Hashes /\ x.id \in S
  BY <1>2
<1>5. \A a \in Hashes : a \in Nat
  BY RingAssumption DEF Hashes
<1> QED
  BY <1>2, <1>3, <1>4, <1>5, IdsAssumption

\* The search splits the ring at h.
LEMMA SearchProperties ==
    ASSUME NEW rg, NEW S \in SUBSET Ids, Placed(rg, S), rg # <<>>, NEW h \in Hashes
    PROVE  /\ Search(rg, h) \in 1 .. Len(rg)
           /\ \A k \in 1 .. Len(rg) : k < Search(rg, h) => rg[k].hash < h
           /\ \/ \A k \in 1 .. Len(rg) : k >= Search(rg, h) => rg[k].hash >= h
              \/ Search(rg, h) = 1 /\ \A k \in 1 .. Len(rg) : rg[k].hash < h
<1> DEFINE at == {k \in DOMAIN rg : rg[k].hash >= h}
<1>1. /\ Len(rg) \in Nat /\ DOMAIN rg = 1 .. Len(rg) /\ h \in Nat
      /\ \A k \in 1 .. Len(rg) : rg[k].hash \in Nat
  BY PlacedType, RingAssumption DEF Hashes
<1>2. Len(rg) # 0
  <2>1. rg \in Seq([hash: Hashes, id: S])
    BY DEF Placed
  <2> QED
    BY <2>1, EmptySeq
<1>3. CASE at = {}
  <2>1. Search(rg, h) = 1
    BY <1>3 DEF Search
  <2>2. \A k \in 1 .. Len(rg) : rg[k].hash < h
    BY <1>1, <1>3
  <2> QED
    BY <1>1, <1>2, <2>1, <2>2
<1>4. CASE at # {}
  <2>1. Search(rg, h) = Min(at)
    BY <1>4 DEF Search
  <2>2. at \in SUBSET Int /\ at \subseteq 1 .. Len(rg)
    BY <1>1
  <2>3. IsFiniteSet(at)
    <3>1. IsFiniteSet(1 .. Len(rg))
      BY <1>1, FS_Interval
    <3> HIDE DEF at
    <3> QED
      BY <2>2, <3>1, FS_Subset
  <2>4. Min(at) \in at /\ \A k \in at : Min(at) <= k
    <3> HIDE DEF at
    <3> QED
      BY <1>4, <2>2, <2>3, LeastIsMin
  <2>5. PICK s \in 1 .. Len(rg) : s = Search(rg, h)
    BY <2>1, <2>2, <2>4
  <2>6. rg[s].hash >= h /\ \A k \in at : s <= k
    BY <2>1, <2>4, <2>5
  <2>7. ASSUME NEW k \in 1 .. Len(rg), k < s PROVE rg[k].hash < h
    <3>1. k \notin at
      BY <1>1, <2>6, <2>7
    <3> QED
      BY <1>1, <3>1
  <2>8. ASSUME NEW k \in 1 .. Len(rg), k >= s PROVE rg[k].hash >= h
    <3>1. CASE k = s
      BY <2>6, <3>1
    <3>2. CASE s < k
      <4>1. rg[s].hash <= rg[k].hash
        <5>1. rg[s].hash < rg[k].hash \/ rg[s].hash = rg[k].hash
          BY <3>2 DEF Placed
        <5> QED
          BY <1>1, <5>1
      <4> QED
        BY <1>1, <2>6, <4>1
    <3> QED
      BY <1>1, <2>8, <3>1, <3>2
  <2> QED
    BY <2>5, <2>7, <2>8
<1> QED
  BY <1>3, <1>4

\* Once around: every place of the ring is met, the nearest first.
LEMMA WalkProperties ==
    ASSUME NEW rg, NEW S \in SUBSET Ids, Placed(rg, S), rg # <<>>, NEW h \in Hashes
    PROVE  LET w == WalkFrom(rg, Search(rg, h))
           IN  /\ Len(w) = Len(rg) /\ DOMAIN w = 1 .. Len(rg)
               /\ \A k \in 1 .. Len(rg) : \E m \in 1 .. Len(rg) : w[k] = rg[m]
               /\ \A m \in 1 .. Len(rg) : \E k \in 1 .. Len(rg) : w[k] = rg[m]
               /\ \A i, j \in 1 .. Len(rg) : i < j =>
                     \/ Gap(h, w[i].hash) < Gap(h, w[j].hash)
                     \/ (Gap(h, w[i].hash) = Gap(h, w[j].hash) /\ w[i].id <= w[j].id)
<1> DEFINE L == Len(rg)
           s == Search(rg, h)
           a == SubSeq(rg, s, L)
           b == SubSeq(rg, 1, s - 1)
           w == a \o b
           n == L - s + 1
           at(k) == IF k <= n THEN s + k - 1 ELSE k - n
<1>0. /\ L \in Nat /\ DOMAIN rg = 1 .. L /\ h \in Nat
      /\ \A k \in 1 .. L : rg[k].hash \in Hashes /\ rg[k].hash \in Nat /\ rg[k].id \in Nat
      /\ rg \in Seq([hash: Hashes, id: S])
  <2>1. rg \in Seq([hash: Hashes, id: S])
    BY DEF Placed
  <2>2. h \in Nat
    BY RingAssumption DEF Hashes
  <2> QED
    BY <2>1, <2>2, PlacedType
<1>1. /\ s \in 1 .. L
      /\ \A k \in 1 .. L : k < s => rg[k].hash < h
      /\ \/ \A k \in 1 .. L : k >= s => rg[k].hash >= h
         \/ s = 1 /\ \A k \in 1 .. L : rg[k].hash < h
  BY SearchProperties
<1> HIDE DEF s
<1>2. PICK T : T = [hash: Hashes, id: S]
  OBVIOUS
<1>3. \A k \in 1 .. L : rg[k] \in T
  BY <1>0, <1>2, ElementOfSeq
<1>4. a \in Seq(T) /\ Len(a) = n /\ \A k \in 1 .. n : a[k] = rg[s + k - 1]
  <2>1. \A k \in s .. L : rg[k] \in T
    BY <1>0, <1>1, <1>3
  <2> QED
    BY <1>0, <1>1, <2>1, SubSeqProperties
<1>5. b \in Seq(T) /\ Len(b) = s - 1 /\ \A k \in 1 .. s - 1 : b[k] = rg[k]
  <2>1. \A k \in 1 .. s - 1 : rg[k] \in T
    BY <1>0, <1>1, <1>3
  <2> QED
    BY <1>0, <1>1, <2>1, SubSeqProperties
<1> HIDE DEF a, b
<1>6. /\ w \in Seq(T) /\ Len(w) = Len(a) + Len(b)
      /\ \A k \in 1 .. Len(a) + Len(b) : w[k] = IF k <= Len(a) THEN a[k] ELSE b[k - Len(a)]
  BY <1>4, <1>5, ConcatProperties
<1> HIDE DEF w
<1>7. n \in Nat /\ n + (s - 1) = L
  BY <1>0, <1>1
<1>8. Len(w) = L /\ DOMAIN w = 1 .. L
  BY <1>0, <1>4, <1>5, <1>6, <1>7, LenProperties
<1>9. ASSUME NEW k \in 1 .. L PROVE at(k) \in 1 .. L /\ w[k] = rg[at(k)]
  <2>1. w[k] = IF k <= n THEN a[k] ELSE b[k - n]
    BY <1>4, <1>5, <1>6, <1>7
  <2>2. CASE k <= n
    <3>1. k \in 1 .. n /\ at(k) = s + k - 1 /\ s + k - 1 \in 1 .. L
      BY <1>0, <1>1, <2>2
    <3> QED
      BY <1>4, <2>1, <2>2, <3>1
  <2>3. CASE ~(k <= n)
    <3>1. k - n \in 1 .. s - 1 /\ at(k) = k - n /\ k - n \in 1 .. L
      BY <1>0, <1>1, <1>7, <2>3
    <3> QED
      BY <1>5, <2>1, <2>3, <3>1
  <2> QED
    BY <2>2, <2>3
<1>10. ASSUME NEW m \in 1 .. L PROVE \E k \in 1 .. L : w[k] = rg[m]
  <2>1. CASE m >= s
    <3>1. m - s + 1 \in 1 .. L /\ at(m - s + 1) = m
      BY <1>0, <1>1, <2>1
    <3>2. w[m - s + 1] = rg[m]
      BY <1>9, <3>1
    <3> QED
      BY <3>1, <3>2
  <2>2. CASE ~(m >= s)
    <3>1. m + n \in 1 .. L /\ at(m + n) = m
      BY <1>0, <1>1, <1>7, <2>2
    <3>2. w[m + n] = rg[m]
      BY <1>9, <3>1
    <3> QED
      BY <3>1, <3>2
  <2> QED
    BY <2>1, <2>2
<1>11. ASSUME NEW i \in 1 .. L, NEW j \in 1 .. L, i < j
       PROVE  \/ Gap(h, w[i].hash) < Gap(h, w[j].hash)
              \/ (Gap(h, w[i].hash) = Gap(h, w[j].hash) /\ w[i].id <= w[j].id)
  <2>1. PICK p \in 1 .. L : p = at(i) /\ w[i] = rg[p]
    BY <1>9
  <2>2. PICK q \in 1 .. L : q = at(j) /\ w[j] = rg[q]
    BY <1>9
  <2>3. PICK x \in Hashes : x = rg[p].hash
    BY <1>0
  <2>4. PICK y \in Hashes : y = rg[q].hash
    BY <1>0
  <2>5. /\ x \in Nat /\ y \in Nat /\ h \in Nat /\ HashSpace \in Nat /\ x < HashSpace /\ h < HashSpace
        /\ Gap(h, x) = IF x >= h THEN x - h ELSE x - h + HashSpace
        /\ Gap(h, y) = IF y >= h THEN y - h ELSE y - h + HashSpace
    BY GapValue
  <2>6. rg[p].id \in Nat /\ rg[q].id \in Nat
    BY <1>0
  <2>7. p < q \/ (p >= s /\ q < s)
    BY <1>0, <1>1, <1>7, <1>11, <2>1, <2>2
  <2>8. CASE p < q
    <3>1. x < y \/ (x = y /\ rg[p].id <= rg[q].id)
      BY <2>3, <2>4, <2>8 DEF Placed
    <3>2. \/ x >= h /\ y >= h
          \/ x < h /\ y < h
      <4>1. (p < s /\ q < s) \/ (p >= s /\ q >= s)
        BY <1>0, <1>1, <1>7, <1>11, <2>1, <2>2, <2>8
      <4> QED
        BY <1>1, <2>3, <2>4, <4>1
    <3>3. Gap(h, x) < Gap(h, y) \/ (Gap(h, x) = Gap(h, y) /\ rg[p].id <= rg[q].id)
      BY <2>5, <3>1, <3>2
    <3> QED
      BY <2>1, <2>2, <2>3, <2>4, <3>3
  <2>9. CASE p >= s /\ q < s
    <3>1. x >= h /\ y < h
      BY <1>1, <2>3, <2>4, <2>9
    <3>2. Gap(h, x) < Gap(h, y)
      BY <2>5, <3>1
    <3> QED
      BY <2>1, <2>2, <2>3, <2>4, <3>2
  <2> QED
    BY <2>7, <2>8, <2>9
<1>12. WalkFrom(rg, Search(rg, h)) = w
  BY DEF WalkFrom, w, a, b, s
<1>13. \A k \in 1 .. L : \E m \in 1 .. L : w[k] = rg[m]
  BY <1>9
<1> HIDE DEF L
<1> QED
  BY <1>8, <1>10, <1>11, <1>12, <1>13 DEF L
----------------------------------------------------------------------------
(* The owners of a key. *)

\* The distance of a node is that of its nearest placement.
LEMMA DistanceProperties ==
    ASSUME HashOK, NEW h \in Hashes, NEW id \in Ids
    PROVE  /\ Distance(h, id) \in Nat
           /\ \E i \in 1 .. vnodesPerNode : Distance(h, id) = Gap(h, hash[id][i])
           /\ \A i \in 1 .. vnodesPerNode : Distance(h, id) <= Gap(h, hash[id][i])
<1> DEFINE D == {(hash[id][i] - h) % HashSpace : i \in 1 .. vnodesPerNode}
<1>1. ASSUME NEW i \in 1 .. vnodesPerNode
      PROVE  Gap(h, hash[id][i]) \in 0 .. HashSpace - 1
  <2>1. hash[id][i] \in Hashes
    BY DEF HashOK
  <2> QED
    BY <2>1, GapValue
<1>2. D = {Gap(h, hash[id][i]) : i \in 1 .. vnodesPerNode}
  BY DEF Gap
<1>3. D \subseteq 0 .. HashSpace - 1 /\ D # {}
  <2>1. 1 \in 1 .. vnodesPerNode
    BY RingAssumption
  <2> QED
    BY <1>1, <1>2, <2>1
<1>4. Distance(h, id) = Min(D)
  BY DEF Distance
<1> HIDE DEF D
<1>5. IsFiniteSet(D) /\ D \in SUBSET Int
  <2>1. IsFiniteSet(0 .. HashSpace - 1)
    BY RingAssumption, FS_Interval
  <2>2. IsFiniteSet(D)
    BY <1>3, <2>1, FS_Subset
  <2>3. D \in SUBSET Int
    BY <1>3
  <2> QED
    BY <2>2, <2>3
<1>6. Min(D) \in D /\ \A d \in D : Min(D) <= d
  BY <1>3, <1>5, LeastIsMin
<1>7. Distance(h, id) \in Nat
  <2>1. Distance(h, id) \in 0 .. HashSpace - 1
    BY <1>3, <1>4, <1>6
  <2> QED
    BY <2>1, RingAssumption
<1>8. \E i \in 1 .. vnodesPerNode : Distance(h, id) = Gap(h, hash[id][i])
  <2>1. Distance(h, id) \in {Gap(h, hash[id][i]) : i \in 1 .. vnodesPerNode}
    BY <1>2, <1>4, <1>6
  <2> QED
    BY <2>1
<1>9. ASSUME NEW i \in 1 .. vnodesPerNode PROVE Distance(h, id) <= Gap(h, hash[id][i])
  <2>1. Gap(h, hash[id][i]) \in D
    BY <1>2
  <2> QED
    BY <1>4, <1>6, <2>1
<1> QED
  BY <1>7, <1>8, <1>9

\* Of two nodes one is nearer.
LEMMA NearerOrder ==
    ASSUME HashOK, NEW h \in Hashes
    PROVE  /\ \A x \in Ids : ~Nearer(h, x, x)
           /\ \A x, y \in Ids : x # y => Nearer(h, x, y) \/ Nearer(h, y, x)
           /\ \A x, y, z \in Ids : Nearer(h, x, y) /\ Nearer(h, y, z) => Nearer(h, x, z)
<1>1. ASSUME NEW x \in Ids PROVE x \in Nat /\ Distance(h, x) \in Nat
  BY IdsAssumption, DistanceProperties
<1>2. ASSUME NEW x \in Ids PROVE ~Nearer(h, x, x)
  BY <1>1 DEF Nearer
<1>3. ASSUME NEW x \in Ids, NEW y \in Ids, x # y PROVE Nearer(h, x, y) \/ Nearer(h, y, x)
  BY <1>1, <1>3 DEF Nearer
<1>4. ASSUME NEW x \in Ids, NEW y \in Ids, NEW z \in Ids, Nearer(h, x, y), Nearer(h, y, z)
      PROVE  Nearer(h, x, z)
  BY <1>1, <1>4 DEF Nearer
<1> QED
  BY <1>2, <1>3, <1>4

\* s lists nodes of S, the nearest first, and leaves out none that is nearer
\* than one it lists.
ClosestFirst(h, s, S) ==
    \A i \in 1 .. Len(s) : /\ s[i] \in S \ {s[j] : j \in 1 .. i - 1}
                           /\ \A x \in S \ {s[j] : j \in 1 .. i} : Nearer(h, s[i], x)

\* The places where a walk meets a node for the first time.
FirstMet(w) == {k \in DOMAIN w : \A j \in 1 .. k - 1 : w[j].id # w[k].id}

\* There is one such place for every node, and the nodes are met there in the
\* order of their distance.
LEMMA FirstMetProperties ==
    ASSUME HashOK, NEW S \in SUBSET Ids, IsFiniteSet(S), NEW rg, Placed(rg, S), rg # <<>>,
           NEW h \in Hashes, NEW w, w = WalkFrom(rg, Search(rg, h))
    PROVE  /\ FirstMet(w) \in SUBSET Int /\ IsFiniteSet(FirstMet(w))
           /\ Cardinality(FirstMet(w)) = Cardinality(S)
           /\ \A k \in FirstMet(w) : w[k].id \in S
           /\ \A x \in S : \E k \in FirstMet(w) : w[k].id = x
           /\ \A k, l \in FirstMet(w) : k < l =>
                 w[k].id # w[l].id /\ Nearer(h, w[k].id, w[l].id)
<1> DEFINE L == Len(rg)
           M == FirstMet(w)
<1>1. /\ L \in Nat
      /\ \A m \in 1 .. L : /\ rg[m].hash \in Hashes /\ rg[m].id \in S /\ rg[m].id \in Nat
  BY PlacedType
<1>2. /\ DOMAIN w = 1 .. L
      /\ \A k \in 1 .. L : \E m \in 1 .. L : w[k] = rg[m]
      /\ \A m \in 1 .. L : \E k \in 1 .. L : w[k] = rg[m]
      /\ \A i, j \in 1 .. L : i < j =>
            \/ Gap(h, w[i].hash) < Gap(h, w[j].hash)
            \/ (Gap(h, w[i].hash) = Gap(h, w[j].hash) /\ w[i].id <= w[j].id)
  <2> DEFINE v == WalkFrom(rg, Search(rg, h))
  <2>1. /\ DOMAIN v = 1 .. L
        /\ \A k \in 1 .. L : \E m \in 1 .. L : v[k] = rg[m]
        /\ \A m \in 1 .. L : \E k \in 1 .. L : v[k] = rg[m]
        /\ \A i, j \in 1 .. L : i < j =>
              \/ Gap(h, v[i].hash) < Gap(h, v[j].hash)
              \/ (Gap(h, v[i].hash) = Gap(h, v[j].hash) /\ v[i].id <= v[j].id)
    BY WalkProperties
  <2>2. v = w
    OBVIOUS
  <2> HIDE DEF v
  <2> QED
    BY <2>1, <2>2
<1>3. ASSUME NEW k \in 1 .. L
      PROVE  /\ w[k].hash \in Hashes /\ w[k].id \in S /\ w[k].id \in Nat
             /\ Gap(h, w[k].hash) \in Nat
             /\ \E i \in 1 .. vnodesPerNode : w[k].hash = hash[w[k].id][i]
  <2>1. PICK m \in 1 .. L : w[k] = rg[m]
    BY <1>2
  <2>2. w[k].hash \in Hashes /\ w[k].id \in S /\ w[k].id \in Nat
    BY <1>1, <2>1
  <2>3. Gap(h, w[k].hash) \in Nat
    <3>1. Gap(h, w[k].hash) \in 0 .. HashSpace - 1
      BY <2>2, GapValue
    <3> QED
      BY <3>1, RingAssumption
  <2>4. \E i \in 1 .. vnodesPerNode : w[k].hash = hash[w[k].id][i]
    BY <2>1 DEF Placed
  <2> QED
    BY <2>2, <2>3, <2>4
<1>4. ASSUME NEW x \in S, NEW i \in 1 .. vnodesPerNode
      PROVE  \E k \in 1 .. L : w[k].id = x /\ w[k].hash = hash[x][i]
  <2>1. PICK m \in 1 .. L : rg[m].id = x /\ rg[m].hash = hash[x][i]
    BY DEF Placed
  <2>2. PICK k \in 1 .. L : w[k] = rg[m]
    BY <1>2
  <2> QED
    BY <2>1, <2>2
<1>5. \A k : k \in M <=> k \in 1 .. L /\ \A j \in 1 .. k - 1 : w[j].id # w[k].id
  BY <1>2 DEF FirstMet
<1> HIDE DEF L, M
<1>6. M \in SUBSET Int /\ M \subseteq 1 .. L /\ IsFiniteSet(M)
  <2>1. IsFiniteSet(1 .. L)
    BY <1>1, FS_Interval
  <2>2. M \subseteq 1 .. L
    BY <1>5
  <2> QED
    BY <1>1, <2>1, <2>2, FS_Subset
<1>7. ASSUME NEW k \in M, NEW l \in 1 .. L, w[k].id = w[l].id PROVE k <= l
  <2>1. k \in 1 .. L /\ l \notin 1 .. k - 1
    BY <1>5, <1>7
  <2> QED
    BY <1>1, <2>1
<1>8. ASSUME NEW x \in S PROVE \E k \in M : w[k].id = x
  <2> DEFINE P == {k \in 1 .. L : w[k].id = x}
  <2>1. P # {}
    <3>1. 1 \in 1 .. vnodesPerNode
      BY RingAssumption
    <3> QED
      BY <1>4, <3>1
  <2>2. IsFiniteSet(P) /\ P \in SUBSET Int
    <3>1. IsFiniteSet(1 .. L)
      BY <1>1, FS_Interval
    <3>2. P \subseteq 1 .. L
      OBVIOUS
    <3> HIDE DEF P
    <3>3. IsFiniteSet(P)
      BY <3>1, <3>2, FS_Subset
    <3>4. P \in SUBSET Int
      BY <1>1, <3>2
    <3> QED
      BY <3>3, <3>4
  <2>3. Min(P) \in P /\ \A k \in P : Min(P) <= k
    <3> HIDE DEF P
    <3> QED
      BY <2>1, <2>2, LeastIsMin
  <2>4. PICK p \in 1 .. L : p = Min(P)
    BY <2>3
  <2>5. w[p].id = x /\ \A k \in 1 .. L : w[k].id = x => p <= k
    BY <2>3, <2>4
  <2>6. \A j \in 1 .. p - 1 : w[j].id # w[p].id
    BY <1>1, <2>5
  <2> QED
    BY <1>5, <2>5, <2>6
<1>9. ASSUME NEW k \in M PROVE Distance(h, w[k].id) = Gap(h, w[k].hash)
  <2>1. k \in 1 .. L /\ w[k].id \in S /\ w[k].id \in Ids /\ Gap(h, w[k].hash) \in Nat
    BY <1>3, <1>6
  <2>2. PICK d \in Nat : d = Distance(h, w[k].id)
    BY <2>1, DistanceProperties
  <2>3. d <= Gap(h, w[k].hash)
    <3>1. PICK i \in 1 .. vnodesPerNode : w[k].hash = hash[w[k].id][i]
      BY <1>3, <2>1
    <3>2. Distance(h, w[k].id) <= Gap(h, hash[w[k].id][i])
      BY <2>1, DistanceProperties
    <3> QED
      BY <2>2, <3>1, <3>2
  <2>4. PICK i \in 1 .. vnodesPerNode : d = Gap(h, hash[w[k].id][i])
    BY <2>1, <2>2, DistanceProperties
  <2>5. PICK l \in 1 .. L : w[l].id = w[k].id /\ w[l].hash = hash[w[k].id][i]
    BY <1>4, <2>1
  <2>6. k <= l
    BY <1>7, <2>5
  <2>7. Gap(h, w[k].hash) <= Gap(h, w[l].hash)
    <3>1. CASE k = l
      BY <2>1, <3>1
    <3>2. CASE k < l
      <4>1. Gap(h, w[k].hash) < Gap(h, w[l].hash) \/ Gap(h, w[k].hash) = Gap(h, w[l].hash)
        BY <1>2, <2>1, <3>2
      <4> QED
        BY <1>3, <2>1, <4>1
    <3> QED
      BY <2>1, <2>6, <3>1, <3>2
  <2> QED
    BY <2>1, <2>2, <2>3, <2>4, <2>5, <2>7
<1>10. ASSUME NEW k \in M, NEW l \in M, k < l
       PROVE  w[k].id # w[l].id /\ Nearer(h, w[k].id, w[l].id)
  <2>1. k \in 1 .. L /\ l \in 1 .. L
    BY <1>6
  <2>2. w[k].id # w[l].id
    BY <1>1, <1>7, <1>10, <2>1
  <2>3. /\ w[k].id \in Nat /\ w[l].id \in Nat
        /\ Gap(h, w[k].hash) \in Nat /\ Gap(h, w[l].hash) \in Nat
    BY <1>3, <2>1
  <2>4. \/ Gap(h, w[k].hash) < Gap(h, w[l].hash)
        \/ (Gap(h, w[k].hash) = Gap(h, w[l].hash) /\ w[k].id <= w[l].id)
    BY <1>2, <1>10, <2>1
  <2>5. \/ Gap(h, w[k].hash) < Gap(h, w[l].hash)
        \/ (Gap(h, w[k].hash) = Gap(h, w[l].hash) /\ w[k].id < w[l].id)
    BY <2>2, <2>3, <2>4
  <2> QED
    BY <1>9, <2>2, <2>5 DEF Nearer
<1>11. Cardinality(M) = Cardinality(S)
  <2> DEFINE f == [k \in M |-> w[k].id]
  <2>1. f \in [M -> S]
    BY <1>3, <1>6
  <2>2. ASSUME NEW k \in M, NEW l \in M, f[k] = f[l] PROVE k = l
    <3>1. k <= l /\ l <= k
      BY <1>6, <1>7, <2>2
    <3> QED
      BY <1>6, <3>1
  <2>3. \A x \in S : \E k \in M : f[k] = x
    BY <1>8
  <2> HIDE DEF f
  <2>4. f \in Bijection(M, S)
    BY <2>1, <2>2, <2>3 DEF Bijection, Injection, Surjection, IsInjective
  <2>5. ExistsBijection(M, S)
    BY <2>4 DEF ExistsBijection
  <2> QED
    BY <1>6, <2>5, FS_Bijection
<1>12. \A k \in M : w[k].id \in S
  BY <1>3, <1>6
<1> QED
  BY <1>6, <1>8, <1>10, <1>11, <1>12 DEF M

\* Owners returns the closest nodes.
LEMMA OwnersProperties ==
    ASSUME HashOK, NEW S \in SUBSET Ids, IsFiniteSet(S), NEW rg, Placed(rg, S),
           NEW h \in Hashes, NEW n \in Nat
    PROVE  /\ OwnersOn(rg, h, n) \in Seq(S)
           /\ Len(OwnersOn(rg, h, n)) = Min({n, Cardinality(S)})
           /\ ClosestFirst(h, OwnersOn(rg, h, n), S)
<1> DEFINE w == WalkFrom(rg, Search(rg, h))
           M == FirstMet(w)
           N == Cardinality(S)
           s == OwnersOn(rg, h, n)
<1>0. N \in Nat
  BY FS_CardinalityType
<1> HIDE DEF N
<1>1. PICK m \in Nat : m = Min({n, N}) /\ m <= N /\ m <= n /\ (m = N \/ m = n)
  BY <1>0, MinOfTwo
<1>2. CASE n < 1 \/ rg = <<>>
  <2>1. s = <<>>
    BY <1>2 DEF OwnersOn
  <2>2. m = 0
    <3>1. CASE n < 1
      BY <1>1, <3>1
    <3>2. CASE rg = <<>>
      <4>1. 1 .. Len(rg) = {} /\ 1 \in 1 .. vnodesPerNode
        BY <3>2, RingAssumption
      <4>2. S = {}
        BY <4>1 DEF Placed
      <4>3. N = 0
        BY <4>2, FS_EmptySet DEF N
      <4> QED
        BY <1>1, <4>3
    <3> QED
      BY <1>2, <3>1, <3>2
  <2>3. <<>> \in Seq(S) /\ Len(<<>>) = 0 /\ 1 .. 0 = {}
    OBVIOUS
  <2> QED
    BY <1>1, <2>1, <2>2, <2>3 DEF ClosestFirst, N
<1>3. CASE ~(n < 1 \/ rg = <<>>)
  <2>1. /\ M \in SUBSET Int /\ IsFiniteSet(M) /\ Cardinality(M) = N
        /\ \A k \in M : w[k].id \in S
        /\ \A x \in S : \E k \in M : w[k].id = x
        /\ \A k, l \in M : k < l => w[k].id # w[l].id /\ Nearer(h, w[k].id, w[l].id)
    BY <1>3, FirstMetProperties DEF N
  <2>2. s = [i \in 1 .. Min({n, Cardinality(M)}) |-> w[Nth(M, i)].id]
    BY <1>3 DEF OwnersOn, FirstMet
  <2> HIDE DEF M, w, s
  <2>3. s = [i \in 1 .. m |-> w[Nth(M, i)].id]
    BY <1>1, <2>1, <2>2
  <2>4. /\ \A i \in 1 .. N : Nth(M, i) \in M
        /\ \A i, j \in 1 .. N : i < j => Nth(M, i) < Nth(M, j)
        /\ \A k \in M : \E i \in 1 .. N : Nth(M, i) = k
    BY <2>1, NthProperties
  <2>5. \A i \in 1 .. m : i \in 1 .. N
    BY <1>0, <1>1
  <2>6. \A i \in 1 .. m : s[i] = w[Nth(M, i)].id /\ s[i] \in S
    BY <2>1, <2>3, <2>4, <2>5
  <2>7. s \in Seq(S) /\ Len(s) = m
    <3>1. s \in [1 .. m -> S] /\ DOMAIN s = 1 .. m
      BY <2>3, <2>6
    <3> QED
      BY <3>1
  <2>8. ASSUME NEW i \in 1 .. m
        PROVE  /\ s[i] \in S \ {s[j] : j \in 1 .. i - 1}
               /\ \A x \in S \ {s[j] : j \in 1 .. i} : Nearer(h, s[i], x)
    <3>1. ASSUME NEW j \in 1 .. i - 1 PROVE s[j] # s[i]
      <4>1. j \in 1 .. m /\ j < i
        OBVIOUS
      <4>2. Nth(M, j) \in M /\ Nth(M, i) \in M /\ Nth(M, j) < Nth(M, i)
        BY <2>4, <2>5, <4>1
      <4>3. w[Nth(M, j)].id # w[Nth(M, i)].id
        BY <2>1, <4>2
      <4> QED
        BY <2>6, <4>1, <4>3
    <3>2. ASSUME NEW x \in S, x \notin {s[j] : j \in 1 .. i} PROVE Nearer(h, s[i], x)
      <4>1. PICK k \in M : w[k].id = x
        BY <2>1
      <4>2. PICK j \in 1 .. N : Nth(M, j) = k
        BY <2>4
      <4>3. ~(j <= i)
        <5> SUFFICES ASSUME j <= i PROVE FALSE
          OBVIOUS
        <5>1. j \in 1 .. i /\ j \in 1 .. m
          BY <1>0
        <5>2. s[j] = x
          BY <2>6, <4>1, <4>2, <5>1
        <5> QED
          BY <3>2, <5>1, <5>2
      <4>4. i < j
        BY <1>0, <4>3
      <4>5. Nth(M, i) \in M /\ Nth(M, i) < Nth(M, j) /\ Nth(M, j) \in M
        BY <2>4, <2>5, <4>4
      <4> QED
        BY <2>1, <2>6, <4>1, <4>2, <4>5
    <3> QED
      BY <2>6, <3>1, <3>2
  <2> QED
    BY <1>1, <2>7, <2>8 DEF ClosestFirst, s, N
<1> QED
  BY <1>2, <1>3
----------------------------------------------------------------------------
(* Join and leave. *)

\* The inductive invariant: the ring in memory is the one for the nodes.
RingInv ==
    /\ HashOK
    /\ nodes \in SUBSET Ids /\ IsFiniteSet(nodes)
    /\ Placed(ring, nodes) /\ Numbered(ring, nodes)

\* A ring that is rebuilt for its nodes is right.
LEMMA RebuiltKeeps ==
    ASSUME HashOK, UNCHANGED hash, nodes' \in SUBSET Ids, IsFiniteSet(nodes'),
           ring' = rebuildLocked(nodes')
    PROVE  RingInv'
<1>1. PICK S \in SUBSET Ids : S = nodes'
  OBVIOUS
<1>2. PICK rg : rg = ring'
  OBVIOUS
<1>3. Placed(rg, S) /\ Numbered(rg, S)
  BY <1>1, <1>2, RebuildProperties
<1>4. Placed(ring, nodes)' /\ Numbered(ring, nodes)'
  BY <1>1, <1>2, <1>3 DEF Placed, Numbered
<1>5. HashOK'
  BY DEF HashOK
<1> QED
  BY <1>1, <1>2, <1>3, <1>4, <1>5 DEF RingInv

\* A step that leaves the ring alone.
LEMMA RingSameKeeps ==
    ASSUME RingInv, UNCHANGED ringVars
    PROVE  RingInv'
<1>1. hash' = hash /\ nodes' = nodes /\ ring' = ring
  BY DEF ringVars
<1>2. Placed(ring, nodes)
  BY DEF RingInv
<1>3. Placed(ring, nodes)'
  <2>1. ring' \in Seq([hash: Hashes, id: nodes'])
    BY <1>1, <1>2 DEF Placed
  <2>2. \A i, j \in 1 .. Len(ring') : i < j =>
           ring'[i].hash < ring'[j].hash
           \/ (ring'[i].hash = ring'[j].hash /\ ring'[i].id <= ring'[j].id)
    <3>1. \A i, j \in 1 .. Len(ring) : i < j =>
             ring[i].hash < ring[j].hash
             \/ (ring[i].hash = ring[j].hash /\ ring[i].id <= ring[j].id)
      BY <1>2 DEF Placed
    <3> QED
      BY <1>1, <3>1
  <2>3. \A k \in 1 .. Len(ring') : \E i \in 1 .. vnodesPerNode :
           ring'[k].hash = hash'[ring'[k].id][i]
    BY <1>1, <1>2 DEF Placed
  <2>4. \A id \in nodes', i \in 1 .. vnodesPerNode : \E k \in 1 .. Len(ring') :
           ring'[k].id = id /\ ring'[k].hash = hash'[id][i]
    BY <1>1, <1>2 DEF Placed
  <2> QED
    BY <2>1, <2>2, <2>3, <2>4 DEF Placed
<1>4. Numbered(ring, nodes)'
  BY <1>1 DEF RingInv, Numbered
<1> QED
  BY <1>1, <1>3, <1>4 DEF RingInv, HashOK

\* Add.
LEMMA AddNodeKeeps ==
    ASSUME RingInv, NEW id \in Ids, AddNode(id)
    PROVE  RingInv'
<1>1. CASE id \in nodes
  <2>1. nodes' = nodes
    BY <1>1 DEF AddNode
  <2> QED
    BY <1>1, <2>1, RingSameKeeps DEF AddNode, ringVars
<1>2. CASE id \notin nodes
  <2>1. nodes' \in SUBSET Ids /\ IsFiniteSet(nodes')
    BY FS_AddElement DEF AddNode, RingInv
  <2> QED
    BY <1>2, <2>1, RebuiltKeeps DEF AddNode, RingInv
<1> QED
  BY <1>1, <1>2

\* Remove.
LEMMA RemoveNodeKeeps ==
    ASSUME RingInv, NEW id \in Ids, RemoveNode(id)
    PROVE  RingInv'
<1>1. CASE id \notin nodes
  <2>1. nodes' = nodes
    BY <1>1 DEF RemoveNode
  <2> QED
    BY <1>1, <2>1, RingSameKeeps DEF RemoveNode, ringVars
<1>2. CASE id \in nodes
  <2>1. nodes' \in SUBSET Ids /\ IsFiniteSet(nodes')
    BY FS_RemoveElement DEF RemoveNode, RingInv
  <2> QED
    BY <1>2, <2>1, RebuiltKeeps DEF RemoveNode, RingInv
<1> QED
  BY <1>1, <1>2

\* An empty ring.
LEMMA RingInvInit == RingInit => RingInv
<1> SUFFICES ASSUME RingInit PROVE RingInv
  OBVIOUS
<1>1. HashOK /\ nodes = {} /\ ring = <<>>
  BY DEF RingInit, HashOK
<1>2. <<>> \in Seq([hash: Hashes, id: {}]) /\ Len(<<>>) = 0 /\ 1 .. 0 = {}
  OBVIOUS
<1>3. Placed(ring, nodes)
  BY <1>1, <1>2 DEF Placed
<1>4. IsFiniteSet(nodes) /\ Cardinality(nodes) = 0
  BY <1>1, FS_EmptySet
<1>5. Numbered(ring, nodes)
  BY <1>1 DEF Numbered
<1> QED
  BY <1>1, <1>3, <1>4, <1>5 DEF RingInv

\* Every join and leave keeps the ring in order.
LEMMA RingInvStep == RingInv /\ [RingNext]_ringVars => RingInv'
BY AddNodeKeeps, RemoveNodeKeeps, RingSameKeeps DEF RingNext

\* The ring is in order in every reachable state.
LEMMA RingInvAlways == RingSpec => []RingInv
BY RingInvInit, RingInvStep, PTL DEF RingSpec

\* What the invariant says of the types.
LEMMA RingTyped ==
    ASSUME RingInv
    PROVE  RingTypeOK
BY DEF RingInv, RingTypeOK, Placed, Numbered, HashOK

\* What the invariant says of the owners of a key.
LEMMA OwnersTyped ==
    ASSUME RingInv, NEW h \in Hashes, NEW n \in Nat
    PROVE  /\ Owners(h, n) \in Seq(nodes)
           /\ Len(Owners(h, n)) = Min({n, Cardinality(nodes)})
           /\ ClosestFirst(h, Owners(h, n), nodes)
BY OwnersProperties DEF RingInv, Owners

\* After any joins and leaves, sorting by rebuildLocked has neither lost nor
\* doubled a placement of any node, whatever collides.
THEOREM RingTypeCorrect == RingSpec => []RingTypeOK
<1>1. RingInv => RingTypeOK
  BY RingTyped
<1> QED
  BY <1>1, RingInvAlways, PTL

\* Owners returns the nearest nodes, nearest first, for every hash function,
\* every key and every number of replicas.
THEOREM OwnersCorrect == RingSpec => []OwnersAreClosest
<1>1. ASSUME RingInv PROVE OwnersAreClosest
  <2> SUFFICES ASSUME NEW h \in Hashes, NEW n \in 0 .. Cardinality(Ids) + 1
               PROVE  LET s == Owners(h, n)
                      IN  /\ Len(s) = Min({n, Cardinality(nodes)})
                          /\ \A i \in 1 .. Len(s) :
                                /\ s[i] \in nodes \ {s[j] : j \in 1 .. i - 1}
                                /\ \A x \in nodes \ {s[j] : j \in 1 .. i} : Nearer(h, s[i], x)
    BY DEF OwnersAreClosest
  <2>1. n \in Nat
    OBVIOUS
  <2>2. /\ Len(Owners(h, n)) = Min({n, Cardinality(nodes)})
        /\ ClosestFirst(h, Owners(h, n), nodes)
    BY <1>1, <2>1, OwnersTyped
  <2> QED
    BY <2>2 DEF ClosestFirst
<1> QED
  BY <1>1, RingInvAlways, PTL
----------------------------------------------------------------------------
(* What a join or a leave moves. *)

\* R is the order of the nodes of A by distance.
OrdersByDistance(R, h, A) == \A x, y \in A : <<x, y>> \in R <=> Nearer(h, x, y)

\* The i-th of the nodes that come closest first has i - 1 nodes nearer.
LEMMA ClosestRank ==
    ASSUME HashOK, NEW h \in Hashes, NEW A \in SUBSET Ids, NEW R,
           OrdersByDistance(R, h, A),
           NEW T, NEW s \in Seq(T), ClosestFirst(h, s, A), NEW i \in 1 .. Len(s)
    PROVE  Rank(A, R, s[i]) = i - 1
<1> DEFINE B == {s[j] : j \in 1 .. i - 1}
           J == 1 .. i - 1
           f == [j \in J |-> s[j]]
<1>0. Len(s) \in Nat /\ i \in Nat
  BY LenProperties
<1>1. ASSUME NEW j \in 1 .. Len(s)
      PROVE  /\ s[j] \in A /\ s[j] \in Ids
             /\ \A l \in 1 .. j - 1 : s[l] # s[j]
             /\ \A x \in A : (\A l \in 1 .. j : s[l] # x) => Nearer(h, s[j], x)
  BY DEF ClosestFirst
<1>2. ASSUME NEW x \in A, Nearer(h, x, s[i]) PROVE x \in B
  <2> SUFFICES ASSUME x \notin B PROVE FALSE
    OBVIOUS
  <2>1. x # s[i]
    BY <1>1, <1>2, NearerOrder
  <2>2. ASSUME NEW l \in 1 .. i PROVE s[l] # x
    <3>1. l \in 1 .. i - 1 \/ l = i
      BY <1>0
    <3> QED
      BY <2>1, <3>1
  <2>3. Nearer(h, s[i], x)
    BY <1>1, <2>2
  <2>4. x \in Ids /\ s[i] \in Ids
    BY <1>1
  <2> QED
    BY <1>2, <2>3, <2>4, NearerOrder
<1>3. ASSUME NEW j \in 1 .. i - 1 PROVE s[j] \in A /\ Nearer(h, s[j], s[i])
  <2>1. j \in 1 .. Len(s) /\ \A l \in 1 .. j : l \in 1 .. i - 1
    BY <1>0
  <2>2. s[i] \in A /\ \A l \in 1 .. j : s[l] # s[i]
    BY <1>1, <2>1
  <2> QED
    BY <1>1, <2>1, <2>2
<1>4. {x \in A : <<x, s[i]>> \in R} = B
  <2>1. s[i] \in A
    BY <1>1
  <2>2. \A x \in A : <<x, s[i]>> \in R <=> Nearer(h, x, s[i])
    BY <2>1 DEF OrdersByDistance
  <2>3. B \subseteq A
    BY <1>3
  <2>4. \A x \in B : Nearer(h, x, s[i])
    BY <1>3
  <2> HIDE DEF B
  <2> QED
    BY <1>2, <2>2, <2>3, <2>4
<1>5. Cardinality(B) = i - 1
  <2>1. IsFiniteSet(J) /\ Cardinality(J) = i - 1
    <3>1. 1 \in Int /\ i - 1 \in Int /\ i >= 1
      BY <1>0
    <3>2. IsFiniteSet(J) /\ Cardinality(J) = IF 1 > i - 1 THEN 0 ELSE (i - 1) - 1 + 1
      BY <3>1, FS_Interval
    <3> QED
      BY <3>1, <3>2
  <2>2. f \in [J -> B] /\ \A x \in B : \E j \in J : f[j] = x
    OBVIOUS
  <2>3. ASSUME NEW j \in J, NEW k \in J, f[j] = f[k] PROVE j = k
    <3>1. j \in 1 .. Len(s) /\ k \in 1 .. Len(s) /\ s[j] = s[k]
      BY <1>0, <2>3
    <3>2. j \notin 1 .. k - 1 /\ k \notin 1 .. j - 1
      BY <1>1, <3>1
    <3> QED
      BY <1>0, <3>1, <3>2
  <2> HIDE DEF f, B, J
  <2>4. f \in Bijection(J, B)
    BY <2>2, <2>3 DEF Bijection, Injection, Surjection, IsInjective
  <2>5. ExistsBijection(J, B)
    BY <2>4 DEF ExistsBijection
  <2> QED
    BY <2>1, <2>5, FS_Bijection
<1> QED
  BY <1>4, <1>5 DEF Rank

\* Two lists of the closest nodes of A agree as far as both go.
LEMMA ClosestUnique ==
    ASSUME HashOK, NEW h \in Hashes, NEW A \in SUBSET Ids, IsFiniteSet(A),
           NEW T, NEW s \in Seq(T), ClosestFirst(h, s, A),
           NEW U, NEW r \in Seq(U), ClosestFirst(h, r, A),
           NEW i \in 1 .. Len(s), i \in 1 .. Len(r)
    PROVE  s[i] = r[i]
<1>1. PICK R : OrdersByDistance(R, h, A)
  <2> DEFINE Q == {p \in A \X A : Nearer(h, p[1], p[2])}
  <2>1. OrdersByDistance(Q, h, A)
    BY DEF OrdersByDistance
  <2> QED
    BY <2>1
<1>2. Orders(R, A)
  <2>1. \A x \in A : x \in Ids
    OBVIOUS
  <2> QED
    BY <1>1, <2>1, NearerOrder DEF Orders, OrdersByDistance
<1>3. Rank(A, R, s[i]) = i - 1
  BY <1>1, ClosestRank
<1>5. Rank(A, R, r[i]) = i - 1
  BY <1>1, ClosestRank
<1>4. s[i] \in A /\ r[i] \in A
  BY DEF ClosestFirst
<1> QED
  BY <1>2, <1>3, <1>4, <1>5, RankProperties

\* Lists that agree up to m have the same first m elements.
LEMMA SameFront ==
    ASSUME NEW r, NEW s, NEW m \in Nat, \A i \in 1 .. m : r[i] = s[i]
    PROVE  SubSeq(r, 1, m) = SubSeq(s, 1, m)
OBVIOUS

\* The places of t that hold nodes of A.
Kept(t, A) == {i \in DOMAIN t : t[i] \in A}

\* Of a list of the closest nodes of B, those that are in A.
LEMMA StayClosest ==
    ASSUME NEW h, NEW B, NEW A \in SUBSET B, NEW t \in Seq(B), ClosestFirst(h, t, B)
    PROVE  LET r == Sublist(t, Kept(t, A))
           IN  /\ r \in Seq(B) /\ Len(r) <= Len(t) /\ IsInjective(r) /\ ToSet(r) \subseteq A
               /\ ClosestFirst(h, r, A)
<1> DEFINE P == Kept(t, A)
           r == Sublist(t, P)
<1>0. DOMAIN t = 1 .. Len(t) /\ Len(t) \in Nat
  BY LenProperties
<1>1. IsInjective(t)
  <2>1. ASSUME NEW i \in 1 .. Len(t), NEW j \in 1 .. Len(t), i < j PROVE t[i] # t[j]
    <3>1. i \in 1 .. j - 1
      BY <1>0, <2>1
    <3> QED
      BY <3>1 DEF ClosestFirst
  <2> SUFFICES ASSUME NEW i \in 1 .. Len(t), NEW j \in 1 .. Len(t), t[i] = t[j] PROVE i = j
    BY <1>0 DEF IsInjective
  <2>2. ~(i < j) /\ ~(j < i)
    BY <2>1
  <2> QED
    BY <1>0, <2>2
<1>2. P \in SUBSET (1 .. Len(t)) /\ \A k \in 1 .. Len(t) : k \in P <=> t[k] \in A
  BY <1>0 DEF Kept
<1> HIDE DEF P
<1>3. /\ Cardinality(P) \in 0 .. Len(t)
      /\ r \in Seq(B) /\ Len(r) = Cardinality(P)
      /\ \A i \in 1 .. Cardinality(P) : r[i] = t[Nth(P, i)] /\ Nth(P, i) \in P
      /\ \A i, j \in 1 .. Cardinality(P) : i < j => Nth(P, i) < Nth(P, j)
      /\ \A k \in P : \E i \in 1 .. Cardinality(P) : Nth(P, i) = k
      /\ ToSet(r) = {t[k] : k \in P}
      /\ IsInjective(r)
  <2>1. P \in SUBSET (1 .. Len(t))
    BY <1>2
  <2>2. Cardinality(P) \in 0 .. Len(t) /\ r \in Seq(B) /\ Len(r) = Cardinality(P)
    BY <2>1, SublistProperties
  <2>3. \A i \in 1 .. Cardinality(P) : r[i] = t[Nth(P, i)] /\ Nth(P, i) \in P
    BY <2>1, SublistProperties
  <2>4. /\ \A i, j \in 1 .. Cardinality(P) : i < j => Nth(P, i) < Nth(P, j)
        /\ \A k \in P : \E i \in 1 .. Cardinality(P) : Nth(P, i) = k
    <3> HIDE DEF r
    <3>1. \A i, j \in 1 .. Cardinality(P) : i < j => Nth(P, i) < Nth(P, j)
      BY <2>1, SublistProperties
    <3>2. \A k \in P : \E i \in 1 .. Cardinality(P) : Nth(P, i) = k
      BY <2>1, SublistProperties
    <3> QED
      BY <3>1, <3>2
  <2>5. ToSet(r) = {t[k] : k \in P} /\ IsInjective(r)
    BY <1>1, <2>1, SublistProperties
  <2> QED
    BY <2>2, <2>3, <2>4, <2>5
<1> HIDE DEF r
<1>4. PICK m \in Nat : m = Cardinality(P) /\ m <= Len(t) /\ Len(r) = m /\ DOMAIN r = 1 .. m
  BY <1>0, <1>3, LenProperties
<1>5. ToSet(r) \subseteq A
  BY <1>2, <1>3
<1>6. ClosestFirst(h, r, A)
  <2> SUFFICES ASSUME NEW i \in 1 .. m
               PROVE  /\ r[i] \in A \ {r[j] : j \in 1 .. i - 1}
                      /\ \A x \in A \ {r[j] : j \in 1 .. i} : Nearer(h, r[i], x)
    BY <1>4 DEF ClosestFirst
  <2>1. PICK k \in P : k = Nth(P, i) /\ r[i] = t[k]
    BY <1>3, <1>4
  <2>2. k \in 1 .. Len(t) /\ t[k] \in A
    BY <1>2
  <2>3. ASSUME NEW j \in 1 .. i - 1 PROVE r[j] # r[i]
    <3>1. j \in DOMAIN r /\ i \in DOMAIN r /\ j # i
      BY <1>4
    <3> QED
      BY <1>3, <3>1 DEF IsInjective
  <2>4. ASSUME NEW x \in A, \A j \in 1 .. i : r[j] # x PROVE Nearer(h, r[i], x)
    <3>1. ASSUME NEW l \in 1 .. k, t[l] = x PROVE FALSE
      <4>1. l \in 1 .. Len(t)
        BY <1>0, <2>2
      <4>2. l \in P
        BY <1>2, <3>1, <4>1
      <4>3. PICK j \in 1 .. m : Nth(P, j) = l
        BY <1>3, <1>4, <4>2
      <4>4. ~(i < j)
        <5> SUFFICES ASSUME i < j PROVE FALSE
          OBVIOUS
        <5>1. k < l
          BY <1>3, <1>4, <2>1, <4>3
        <5> QED
          BY <1>0, <2>2, <5>1
      <4>5. j \in 1 .. i
        BY <1>4, <4>4
      <4>6. r[j] = x
        BY <1>3, <1>4, <3>1, <4>3
      <4> QED
        BY <2>4, <4>5, <4>6
    <3>2. x \in B \ {t[l] : l \in 1 .. k}
      BY <3>1
    <3>3. Nearer(h, t[k], x)
      BY <2>2, <3>2 DEF ClosestFirst
    <3> QED
      BY <2>1, <3>3
  <2> QED
    BY <2>1, <2>2, <2>3, <2>4
<1> QED
  BY <1>3, <1>4, <1>5, <1>6 DEF r, P

\* Of the closest n nodes of B, those that are in A are the first of the
\* closest n nodes of A.
LEMMA StayIsPrefix ==
    ASSUME HashOK, NEW h \in Hashes, NEW n \in Nat, NEW B \in SUBSET Ids, IsFiniteSet(B), NEW A \in SUBSET B,
           NEW s \in Seq(A), Len(s) = Min({n, Cardinality(A)}), ClosestFirst(h, s, A),
           NEW t \in Seq(B), Len(t) = Min({n, Cardinality(B)}), ClosestFirst(h, t, B)
    PROVE  IsPrefix(Sublist(t, Kept(t, A)), s)
<1> DEFINE r == Sublist(t, Kept(t, A))
<1>0. /\ Len(t) \in Nat /\ Len(s) \in Nat
      /\ IsFiniteSet(A) /\ A \in SUBSET Ids
      /\ Cardinality(A) \in Nat /\ Cardinality(B) \in Nat
  <2>1. IsFiniteSet(A) /\ A \in SUBSET Ids
    BY FS_Subset
  <2> QED
    BY <2>1, LenProperties, FS_CardinalityType
<1>3. /\ r \in Seq(B) /\ Len(r) <= Len(t) /\ IsInjective(r) /\ ToSet(r) \subseteq A
      /\ ClosestFirst(h, r, A)
  BY StayClosest
<1> HIDE DEF r
<1>4. PICK m \in Nat : Len(r) = m
  BY <1>3, LenProperties
<1>5. Len(r) <= Len(s)
  <2>1. Cardinality(ToSet(r)) = m
    BY <1>3, <1>4, InjectiveCardinality
  <2>3. m <= Cardinality(A)
    BY <1>0, <1>3, <2>1, FS_Subset
  <2>4. m <= n
    <3>1. Len(t) <= n
      BY <1>0, MinOfTwo
    <3> QED
      BY <1>0, <1>3, <1>4, <3>1
  <2>5. Len(s) = n \/ Len(s) = Cardinality(A)
    BY <1>0, MinOfTwo
  <2> QED
    BY <1>4, <2>3, <2>4, <2>5
<1>7. ASSUME NEW i \in 1 .. m PROVE r[i] = s[i]
  <2>1. i \in 1 .. Len(s) /\ i \in 1 .. Len(r)
    BY <1>0, <1>4, <1>5
  <2> QED
    BY <1>0, <1>3, <2>1, ClosestUnique
<1>8. SubSeq(r, 1, m) = SubSeq(s, 1, m)
  BY <1>7, SameFront
<1> QED
  BY <1>4, <1>5, <1>8 DEF IsPrefix, r

\* A join or a leave moves no key between the nodes that stay.
THEOREM DisruptionIsMinimal == RingSpec => MinimalDisruption
<1>1. ASSUME RingInv, RingInv', [RingNext]_ringVars,
             NEW old, old = ring, NEW new, new = ring',
             NEW h \in Hashes, NEW n \in 1 .. Cardinality(Ids)
      PROVE  LET was == OwnersOn(old, h, n)
                 is  == OwnersOn(new, h, n)
                 Stay(s) == Sublist(s, {i \in DOMAIN s : s[i] \in nodes \cap nodes'})
             IN  /\ nodes \subseteq nodes' => IsPrefix(Stay(is), was)
                 /\ nodes' \subseteq nodes => IsPrefix(Stay(was), is)
  <2> DEFINE was == OwnersOn(old, h, n)
             is  == OwnersOn(new, h, n)
  <2>1. hash' = hash
    BY <1>1 DEF RingNext, AddNode, RemoveNode, ringVars
  <2>2. HashOK /\ nodes \in SUBSET Ids /\ IsFiniteSet(nodes) /\ Placed(old, nodes)
    BY <1>1 DEF RingInv
  <2>3. PICK S \in SUBSET Ids : S = nodes' /\ IsFiniteSet(S)
    BY <1>1 DEF RingInv
  <2>4. Placed(new, S)
    <3>1. Placed(ring, nodes)'
      BY <1>1 DEF RingInv
    <3> QED
      BY <1>1, <2>1, <2>3, <3>1 DEF Placed
  <2>5. n \in Nat
    OBVIOUS
  <2>6. /\ was \in Seq(nodes) /\ Len(was) = Min({n, Cardinality(nodes)}) /\ ClosestFirst(h, was, nodes)
    BY <2>2, <2>5, OwnersProperties
  <2>7. /\ is \in Seq(S) /\ Len(is) = Min({n, Cardinality(S)}) /\ ClosestFirst(h, is, S)
    BY <2>2, <2>3, <2>4, <2>5, OwnersProperties
  <2> HIDE DEF was, is
  <2>8. ASSUME nodes \subseteq nodes'
        PROVE  IsPrefix(Sublist(is, {i \in DOMAIN is : is[i] \in nodes \cap nodes'}), was)
    <3>1. nodes \cap nodes' = nodes
      BY <2>8
    <3>2. IsPrefix(Sublist(is, {i \in DOMAIN is : is[i] \in nodes}), was)
      BY <2>2, <2>3, <2>5, <2>6, <2>7, <2>8, StayIsPrefix DEF Kept
    <3> QED
      BY <3>1, <3>2
  <2>9. ASSUME nodes' \subseteq nodes
        PROVE  IsPrefix(Sublist(was, {i \in DOMAIN was : was[i] \in nodes \cap nodes'}), is)
    <3>1. nodes \cap nodes' = S
      BY <2>3, <2>9
    <3>2. S \in SUBSET nodes
      BY <2>3, <2>9
    <3>3. IsPrefix(Sublist(was, {i \in DOMAIN was : was[i] \in S}), is)
      BY <2>2, <2>5, <2>6, <2>7, <3>2, StayIsPrefix DEF Kept
    <3> QED
      BY <3>1, <3>3
  <2> QED
    BY <2>8, <2>9 DEF was, is
<1>2. ASSUME RingInv, RingInv', [RingNext]_ringVars
      PROVE  \A old \in {ring}, new \in {ring'} : \A h \in Hashes, n \in 1 .. Cardinality(Ids) :
               LET was == OwnersOn(old, h, n)
                   is  == OwnersOn(new, h, n)
                   Stay(s) == Sublist(s, {i \in DOMAIN s : s[i] \in nodes \cap nodes'})
               IN  /\ nodes \subseteq nodes' => IsPrefix(Stay(is), was)
                   /\ nodes' \subseteq nodes => IsPrefix(Stay(was), is)
  BY <1>1, <1>2
<1> QED
  BY <1>2, RingInvAlways, PTL DEF RingSpec, MinimalDisruption
============================================================================
