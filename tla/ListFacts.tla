----------------------------- MODULE ListFacts -----------------------------
(* Facts about sequences and finite sets that the proofs about several    *)
(* components need.                                                       *)
EXTENDS Places, SequencesExt, FiniteSetTheorems, SequenceTheorems, TLAPS

(* Sequences. *)

\* list.Remove: the elements in front of i keep their place, the others move
\* up by one.
LEMMA RemoveAtProperties ==
    ASSUME NEW S, NEW s \in Seq(S), NEW i \in 1 .. Len(s)
    PROVE  /\ RemoveAt(s, i) \in Seq(S)
           /\ Len(RemoveAt(s, i)) = Len(s) - 1
           /\ \A j \in 1 .. Len(s) - 1 :
                 RemoveAt(s, i)[j] = IF j < i THEN s[j] ELSE s[j + 1]
<1> DEFINE a == SubSeq(s, 1, i - 1)
           b == SubSeq(s, i + 1, Len(s))
<1>0. Len(s) \in Nat
  BY LenProperties
<1>1. /\ a \in Seq(S) /\ Len(a) = i - 1
      /\ \A j \in 1 .. i - 1 : a[j] = s[j]
  <2>1. \A x \in 1 .. i - 1 : s[x] \in S
    BY <1>0, ElementOfSeq
  <2> QED
    BY <1>0, <2>1, SubSeqProperties
<1>2. /\ b \in Seq(S) /\ Len(b) = Len(s) - i
      /\ \A j \in 1 .. Len(s) - i : b[j] = s[i + j]
  BY <1>0, SubSeqProperties
<1> HIDE DEF a, b
<1>3. /\ a \o b \in Seq(S) /\ Len(a \o b) = Len(s) - 1
      /\ \A j \in 1 .. Len(s) - 1 :
            (a \o b)[j] = IF j <= i - 1 THEN a[j] ELSE b[j - (i - 1)]
  <2>1. /\ a \o b \in Seq(S) /\ Len(a \o b) = Len(a) + Len(b)
        /\ \A j \in 1 .. Len(a) + Len(b) :
              (a \o b)[j] = IF j <= Len(a) THEN a[j] ELSE b[j - Len(a)]
    BY <1>1, <1>2, ConcatProperties
  <2>2. Len(a) = i - 1 /\ Len(a) + Len(b) = Len(s) - 1
    BY <1>0, <1>1, <1>2
  <2> QED
    BY <2>1, <2>2
<1>4. RemoveAt(s, i) = a \o b
  BY DEF RemoveAt, a, b
<1>5. ASSUME NEW j \in 1 .. Len(s) - 1
      PROVE  RemoveAt(s, i)[j] = IF j < i THEN s[j] ELSE s[j + 1]
  <2>1. CASE j < i
    BY <1>0, <1>1, <1>3, <1>4, <2>1
  <2>2. CASE ~(j < i)
    <3>1. j - (i - 1) \in 1 .. Len(s) - i /\ i + (j - (i - 1)) = j + 1
      BY <1>0, <2>2
    <3> QED
      BY <1>0, <1>2, <1>3, <1>4, <2>2, <3>1
  <2> QED
    BY <2>1, <2>2
<1> QED
  BY <1>3, <1>4, <1>5

\* list.PushFront.
LEMMA ConsProperties ==
    ASSUME NEW S, NEW x \in S, NEW s \in Seq(S)
    PROVE  /\ Cons(x, s) \in Seq(S)
           /\ Len(Cons(x, s)) = Len(s) + 1
           /\ Cons(x, s)[1] = x
           /\ \A j \in 1 .. Len(s) : Cons(x, s)[j + 1] = s[j]
<1>0. Len(s) \in Nat /\ <<x>> \in Seq(S) /\ Len(<<x>>) = 1 /\ <<x>>[1] = x
  BY LenProperties
<1> QED
  BY <1>0, ConcatProperties DEF Cons

\* A list without duplicates has as many elements as the set it holds.
LEMMA InjectiveCardinality ==
    ASSUME NEW S, NEW s \in Seq(S), IsInjective(s)
    PROVE  IsFiniteSet(ToSet(s)) /\ Cardinality(ToSet(s)) = Len(s)
<1>0. Len(s) \in Nat /\ DOMAIN s = 1 .. Len(s)
  BY LenProperties
<1>1. s \in Bijection(1 .. Len(s), ToSet(s))
  BY <1>0 DEF IsInjective, ToSet, Bijection, Injection, Surjection
<1>2. ExistsBijection(1 .. Len(s), ToSet(s))
  BY <1>1 DEF ExistsBijection
<1> QED
  BY <1>0, <1>2, FS_CountingElements, FS_Bijection, FS_Interval

\* r lists elements of s in the order they have in s.
Embeds(r, s) ==
    \A a, b \in DOMAIN r : a < b =>
        \E c, d \in DOMAIN s : c < d /\ r[a] = s[c] /\ r[b] = s[d]

\* Removing an element leaves the others, in order.
LEMMA RemoveAtKeeps ==
    ASSUME NEW S, NEW s \in Seq(S), IsInjective(s), NEW i \in 1 .. Len(s)
    PROVE  /\ IsInjective(RemoveAt(s, i))
           /\ ToSet(RemoveAt(s, i)) = ToSet(s) \ {s[i]}
           /\ Embeds(RemoveAt(s, i), s)
<1> DEFINE r == RemoveAt(s, i)
<1>0. Len(s) \in Nat /\ DOMAIN s = 1 .. Len(s)
  BY LenProperties
<1>1. /\ DOMAIN r = 1 .. Len(s) - 1
      /\ \A j \in 1 .. Len(s) - 1 : r[j] = IF j < i THEN s[j] ELSE s[j + 1]
  BY <1>0, RemoveAtProperties, LenProperties
<1> HIDE DEF r
<1> DEFINE pos(j) == IF j < i THEN j ELSE j + 1
<1>a. ASSUME NEW j \in DOMAIN r PROVE pos(j) \in DOMAIN s /\ r[j] = s[pos(j)]
  BY <1>0, <1>1
<1>b. ASSUME NEW j \in DOMAIN r, NEW k \in DOMAIN r
      PROVE  /\ j < k => pos(j) < pos(k)
             /\ pos(j) = pos(k) => j = k
  BY <1>0, <1>1
<1> HIDE DEF pos
<1>2. IsInjective(r)
  <2> SUFFICES ASSUME NEW j \in DOMAIN r, NEW k \in DOMAIN r, r[j] = r[k]
               PROVE  j = k
    BY DEF IsInjective
  <2>1. pos(j) \in DOMAIN s /\ pos(k) \in DOMAIN s /\ s[pos(j)] = s[pos(k)]
    BY <1>a
  <2>2. pos(j) = pos(k)
    BY <2>1 DEF IsInjective
  <2> QED
    BY <1>b, <2>2
<1>3. Embeds(r, s)
  BY <1>a, <1>b DEF Embeds
<1>4. ASSUME NEW x \in ToSet(r) PROVE x \in ToSet(s) \ {s[i]}
  <2>1. PICK j \in DOMAIN r : x = r[j]
    BY DEF ToSet
  <2>2. PICK p \in DOMAIN s : x = s[p] /\ p # i
    <3>1. pos(j) \in DOMAIN s /\ x = s[pos(j)]
      BY <1>a, <2>1
    <3>2. pos(j) # i
      BY <1>0, <1>1 DEF pos
    <3> QED
      BY <3>1, <3>2
  <2>3. s[p] # s[i]
    BY <1>0, <2>2 DEF IsInjective
  <2> QED
    BY <2>2, <2>3 DEF ToSet
<1>5. ASSUME NEW x \in ToSet(s) \ {s[i]} PROVE x \in ToSet(r)
  <2>1. PICK j \in 1 .. Len(s) : x = s[j] /\ j # i
    BY <1>0 DEF ToSet
  <2>2. CASE j < i
    BY <1>0, <1>1, <2>1, <2>2 DEF ToSet
  <2>3. CASE j > i
    <3>1. j - 1 \in 1 .. Len(s) - 1 /\ ~(j - 1 < i) /\ (j - 1) + 1 = j
      BY <1>0, <2>1, <2>3
    <3> QED
      BY <1>1, <2>1, <3>1 DEF ToSet
  <2> QED
    BY <2>1, <2>2, <2>3
<1> QED
  BY <1>2, <1>3, <1>4, <1>5 DEF r

\* Moving an element to the front keeps the set and the order of the others.
LEMMA MoveToFrontKeeps ==
    ASSUME NEW S, NEW s \in Seq(S), IsInjective(s), NEW i \in 1 .. Len(s)
    PROVE  LET m == Cons(s[i], RemoveAt(s, i))
           IN  /\ m \in Seq(S)
               /\ Len(m) = Len(s)
               /\ m[1] = s[i]
               /\ IsInjective(m)
               /\ ToSet(m) = ToSet(s)
               /\ \A a \in 2 .. Len(s) : m[a] # s[i] /\ m[a] \in ToSet(s)
               /\ \A a, b \in 2 .. Len(s) : a < b =>
                     \E c, d \in DOMAIN s : c < d /\ m[a] = s[c] /\ m[b] = s[d]
<1> DEFINE r == RemoveAt(s, i)
           m == Cons(s[i], RemoveAt(s, i))
<1>0. Len(s) \in Nat /\ DOMAIN s = 1 .. Len(s) /\ s[i] \in S
  BY LenProperties, ElementOfSeq
<1>1. /\ r \in Seq(S) /\ Len(r) = Len(s) - 1 /\ DOMAIN r = 1 .. Len(s) - 1
      /\ IsInjective(r) /\ ToSet(r) = ToSet(s) \ {s[i]} /\ Embeds(r, s)
  <2>1. r \in Seq(S) /\ Len(r) = Len(s) - 1
    BY RemoveAtProperties
  <2>2. IsInjective(r) /\ ToSet(r) = ToSet(s) \ {s[i]} /\ Embeds(r, s)
    BY RemoveAtKeeps
  <2>3. DOMAIN r = 1 .. Len(r)
    BY <2>1, LenProperties
  <2> QED
    BY <2>1, <2>2, <2>3
<1>m. m = Cons(s[i], r)
  OBVIOUS
<1> HIDE DEF r, m
<1>2. /\ m \in Seq(S) /\ Len(m) = Len(r) + 1 /\ m[1] = s[i]
      /\ \A j \in 1 .. Len(r) : m[j + 1] = r[j]
  <2>1. r \in Seq(S)
    BY <1>1
  <2>x. PICK x \in S : x = s[i]
    BY <1>0
  <2>2. /\ Cons(x, r) \in Seq(S)
        /\ Len(Cons(x, r)) = Len(r) + 1
        /\ Cons(x, r)[1] = x
        /\ \A j \in 1 .. Len(r) : Cons(x, r)[j + 1] = r[j]
    BY <2>1, ConsProperties
  <2> QED
    BY <1>m, <2>x, <2>2
<1>3. Len(m) = Len(s) /\ DOMAIN m = 1 .. Len(s)
  BY <1>0, <1>1, <1>2, LenProperties
<1>4. ASSUME NEW a \in 2 .. Len(s) PROVE a - 1 \in DOMAIN r /\ m[a] = r[a - 1]
  <2>1. a - 1 \in 1 .. Len(r) /\ (a - 1) + 1 = a
    BY <1>0, <1>1
  <2> QED
    BY <1>1, <1>2, <2>1
<1>5. ASSUME NEW a \in 2 .. Len(s)
      PROVE  m[a] # s[i] /\ m[a] \in ToSet(s)
  BY <1>1, <1>4 DEF ToSet
<1>6. IsInjective(m)
  <2> SUFFICES ASSUME NEW a \in 1 .. Len(s), NEW b \in 1 .. Len(s), m[a] = m[b]
               PROVE  a = b
    BY <1>3 DEF IsInjective
  <2>1. CASE a = 1 \/ b = 1
    BY <1>0, <1>2, <1>5, <2>1
  <2>2. CASE a # 1 /\ b # 1
    <3>1. a \in 2 .. Len(s) /\ b \in 2 .. Len(s)
      BY <1>0, <2>2
    <3>2. a - 1 = b - 1
      BY <1>1, <1>4, <3>1 DEF IsInjective
    <3> QED
      BY <3>1, <3>2
  <2> QED
    BY <2>1, <2>2
<1>7. ToSet(m) = ToSet(s)
  <2>1. ASSUME NEW x \in ToSet(m) PROVE x \in ToSet(s)
    <3>1. PICK a \in 1 .. Len(s) : x = m[a]
      BY <1>3 DEF ToSet
    <3>2. a = 1 \/ a \in 2 .. Len(s)
      BY <1>0
    <3> QED
      BY <1>0, <1>2, <1>5, <3>1, <3>2 DEF ToSet
  <2>2. ASSUME NEW x \in ToSet(s) PROVE x \in ToSet(m)
    <3>1. CASE x = s[i]
      BY <1>0, <1>2, <1>3, <3>1 DEF ToSet
    <3>2. CASE x # s[i]
      <4>1. PICK j \in 1 .. Len(r) : x = r[j]
        BY <1>1, <3>2 DEF ToSet
      <4>2. j + 1 \in 1 .. Len(s)
        BY <1>0, <1>1
      <4> QED
        BY <1>2, <1>3, <4>1, <4>2 DEF ToSet
    <3> QED
      BY <3>1, <3>2
  <2> QED
    BY <2>1, <2>2
<1>8. ASSUME NEW a \in 2 .. Len(s), NEW b \in 2 .. Len(s), a < b
      PROVE  \E c, d \in DOMAIN s : c < d /\ m[a] = s[c] /\ m[b] = s[d]
  <2>1. a - 1 < b - 1
    BY <1>8
  <2>p. PICK p \in DOMAIN r, q \in DOMAIN r : p = a - 1 /\ q = b - 1
    BY <1>4
  <2>2. PICK c \in DOMAIN s, d \in DOMAIN s :
            c < d /\ r[a - 1] = s[c] /\ r[b - 1] = s[d]
    <3>1. p < q
      BY <2>1, <2>p
    <3>2. \E c, d \in DOMAIN s : c < d /\ r[p] = s[c] /\ r[q] = s[d]
      BY ONLY <1>1, <3>1, p \in DOMAIN r, q \in DOMAIN r DEF Embeds
    <3> QED
      BY <2>p, <3>2
  <2> QED
    BY <1>4, <2>2
<1> QED
  BY <1>2, <1>3, <1>5, <1>6, <1>7, <1>8 DEF m

\* Pushing a new element on a prefix of the list.
LEMMA PushFrontKeeps ==
    ASSUME NEW S, NEW s \in Seq(S), IsInjective(s),
           NEW x \in S, x \notin ToSet(s), NEW keep \in 0 .. Len(s)
    PROVE  LET p == SubSeq(s, 1, keep)
               c == Cons(x, p)
           IN  /\ p \in Seq(S) /\ Len(p) = keep
               /\ \A a \in 1 .. keep : p[a] = s[a]
               /\ ToSet(p) \subseteq ToSet(s)
               /\ c \in Seq(S) /\ Len(c) = keep + 1
               /\ c[1] = x
               /\ \A a \in 2 .. keep + 1 : c[a] = s[a - 1]
               /\ IsInjective(c)
               /\ ToSet(c) = ToSet(p) \cup {x}
<1> DEFINE p == SubSeq(s, 1, keep)
           c == Cons(x, p)
<1>0. Len(s) \in Nat /\ DOMAIN s = 1 .. Len(s) /\ keep \in Nat
  BY LenProperties
<1>1. /\ p \in Seq(S) /\ Len(p) = keep
      /\ \A a \in 1 .. keep : p[a] = s[a]
  <2>1. \A a \in 1 .. keep : s[a] \in S
    BY <1>0, ElementOfSeq
  <2> QED
    BY <1>0, <2>1, SubSeqProperties
<1> HIDE DEF p
<1>c. c = Cons(x, p)
  OBVIOUS
<1> HIDE DEF c
<1>2. /\ c \in Seq(S) /\ Len(c) = keep + 1 /\ c[1] = x
      /\ \A a \in 1 .. keep : c[a + 1] = p[a]
  <2>1. p \in Seq(S)
    BY <1>1
  <2>2. /\ Cons(x, p) \in Seq(S)
        /\ Len(Cons(x, p)) = Len(p) + 1
        /\ Cons(x, p)[1] = x
        /\ \A a \in 1 .. Len(p) : Cons(x, p)[a + 1] = p[a]
    BY <2>1, ConsProperties
  <2> QED
    BY <1>1, <1>c, <2>2
<1>3. DOMAIN p = 1 .. keep /\ DOMAIN c = 1 .. keep + 1
  BY <1>1, <1>2, LenProperties
<1>4. ToSet(p) \subseteq ToSet(s)
  BY <1>0, <1>1, <1>3 DEF ToSet
<1>5. ASSUME NEW a \in 2 .. keep + 1
      PROVE  a - 1 \in 1 .. keep /\ c[a] = p[a - 1] /\ c[a] = s[a - 1]
  <2>1. a - 1 \in 1 .. keep /\ (a - 1) + 1 = a
    BY <1>0
  <2> QED
    BY <1>1, <1>2, <2>1
<1>6. ASSUME NEW a \in 2 .. keep + 1 PROVE c[a] # x
  BY <1>0, <1>5 DEF ToSet
<1>7. IsInjective(c)
  <2> SUFFICES ASSUME NEW a \in 1 .. keep + 1, NEW b \in 1 .. keep + 1, c[a] = c[b]
               PROVE  a = b
    BY <1>3 DEF IsInjective
  <2>1. CASE a = 1 \/ b = 1
    BY <1>0, <1>2, <1>6, <2>1
  <2>2. CASE a # 1 /\ b # 1
    <3>1. a \in 2 .. keep + 1 /\ b \in 2 .. keep + 1
      BY <1>0, <2>2
    <3>2. a - 1 \in DOMAIN s /\ b - 1 \in DOMAIN s /\ s[a - 1] = s[b - 1]
      BY <1>0, <1>5, <3>1
    <3>3. a - 1 = b - 1
      BY <3>2 DEF IsInjective
    <3> QED
      BY <3>1, <3>3
  <2> QED
    BY <2>1, <2>2
<1>8. ToSet(c) = ToSet(p) \cup {x}
  <2>1. ASSUME NEW y \in ToSet(c) PROVE y \in ToSet(p) \cup {x}
    <3>1. PICK a \in 1 .. keep + 1 : y = c[a]
      BY <1>3 DEF ToSet
    <3>2. a = 1 \/ a \in 2 .. keep + 1
      BY <1>0
    <3> QED
      BY <1>2, <1>3, <1>5, <3>1, <3>2 DEF ToSet
  <2>2. ASSUME NEW y \in ToSet(p) PROVE y \in ToSet(c)
    <3>1. PICK a \in 1 .. keep : y = p[a]
      BY <1>3 DEF ToSet
    <3>2. a + 1 \in 1 .. keep + 1
      BY <1>0
    <3> QED
      BY <1>2, <1>3, <3>1, <3>2 DEF ToSet
  <2>3. x \in ToSet(c)
    BY <1>0, <1>2, <1>3 DEF ToSet
  <2> QED
    BY <2>1, <2>2, <2>3
<1> QED
  BY <1>1, <1>2, <1>4, <1>5, <1>7, <1>8 DEF c, p
----------------------------------------------------------------------------
(* Finite sets. *)

\* The smaller of two numbers.
LEMMA MinOfTwo ==
    ASSUME NEW a \in Int, NEW b \in Int
    PROVE  Min({a, b}) = IF a <= b THEN a ELSE b
<1>1. \E x \in {a, b} : \A y \in {a, b} : x <= y
  <2>1. CASE a <= b
    BY <2>1
  <2>2. CASE ~(a <= b)
    BY <2>2
  <2> QED
    BY <2>1, <2>2
<1>2. Min({a, b}) \in {a, b} /\ \A y \in {a, b} : Min({a, b}) <= y
  BY <1>1 DEF Min
<1>3. Min({a, b}) <= a /\ Min({a, b}) <= b
  BY <1>2
<1> HIDE DEF Min
<1> QED
  BY <1>2, <1>3

\* The greater of two numbers.
LEMMA MaxOfTwo ==
    ASSUME NEW a \in Int, NEW b \in Int
    PROVE  Max({a, b}) = IF a <= b THEN b ELSE a
<1>1. \E x \in {a, b} : \A y \in {a, b} : x >= y
  <2>1. CASE a <= b
    BY <2>1
  <2>2. CASE ~(a <= b)
    BY <2>2
  <2> QED
    BY <2>1, <2>2
<1>2. Max({a, b}) \in {a, b} /\ \A y \in {a, b} : Max({a, b}) >= y
  BY <1>1 DEF Max
<1>3. Max({a, b}) >= a /\ Max({a, b}) >= b
  BY <1>2
<1> HIDE DEF Max
<1> QED
  BY <1>2, <1>3

\* R, a set of pairs, puts the elements of S in a strict total order.
Orders(R, S) ==
    /\ \A x \in S : <<x, x>> \notin R
    /\ \A x, y \in S : x # y => <<x, y>> \in R \/ <<y, x>> \in R
    /\ \A x, y, z \in S : <<x, y>> \in R /\ <<y, z>> \in R => <<x, z>> \in R

\* How many elements of S come before m in the order R.
Rank(S, R, m) == Cardinality({x \in S : <<x, m>> \in R})

\* The ranks of a finite set in a strict total order are 0, 1, ... without gaps:
\* what makes "the element with i - 1 before it" a sorted sequence.
LEMMA RankProperties ==
    ASSUME NEW S, IsFiniteSet(S), NEW R, Orders(R, S)
    PROVE  /\ Cardinality(S) \in Nat
           /\ \A m \in S : Rank(S, R, m) \in 0 .. Cardinality(S) - 1
           /\ \A m, n \in S : <<m, n>> \in R => Rank(S, R, m) < Rank(S, R, n)
           /\ \A m, n \in S : Rank(S, R, m) = Rank(S, R, n) => m = n
           /\ \A i \in 0 .. Cardinality(S) - 1 : \E m \in S : Rank(S, R, m) = i
<1> DEFINE Below(m) == {x \in S : <<x, m>> \in R}
           f == [m \in S |-> Rank(S, R, m)]
           T == {Rank(S, R, m) : m \in S}
<1>0. PICK N \in Nat : N = Cardinality(S)
  BY FS_CardinalityType
<1>1. ASSUME NEW m \in S
      PROVE  /\ Below(m) \subseteq S /\ IsFiniteSet(Below(m))
             /\ Rank(S, R, m) = Cardinality(Below(m))
             /\ Rank(S, R, m) \in Nat /\ Rank(S, R, m) < N
  <2>1. Below(m) \subseteq S /\ Below(m) # S
    BY DEF Orders
  <2> HIDE DEF Below
  <2>2. IsFiniteSet(Below(m)) /\ Cardinality(Below(m)) < N
    BY <1>0, <2>1, FS_Subset, FS_CardinalityType
  <2> QED
    BY <2>1, <2>2, FS_CardinalityType DEF Rank, Below
<1>6. \A m \in S : Rank(S, R, m) \in 0 .. N - 1
  <2> SUFFICES ASSUME NEW m \in S PROVE Rank(S, R, m) \in 0 .. N - 1
    OBVIOUS
  <2>1. Rank(S, R, m) \in Nat /\ Rank(S, R, m) < N
    BY <1>1
  <2> QED
    BY <2>1
<1>2. ASSUME NEW m \in S, NEW n \in S, <<m, n>> \in R
      PROVE  Rank(S, R, m) < Rank(S, R, n)
  <2>1. Below(m) \subseteq Below(n) /\ Below(m) # Below(n)
    BY <1>2 DEF Orders
  <2>2. /\ IsFiniteSet(Below(n))
        /\ Rank(S, R, m) = Cardinality(Below(m)) /\ Rank(S, R, n) = Cardinality(Below(n))
        /\ Rank(S, R, m) \in Nat /\ Rank(S, R, n) \in Nat
    BY <1>1
  <2> HIDE DEF Below
  <2> QED
    BY <2>1, <2>2, FS_Subset
<1>3. ASSUME NEW m \in S, NEW n \in S, Rank(S, R, m) = Rank(S, R, n)
      PROVE  m = n
  <2>1. ~(Rank(S, R, m) < Rank(S, R, n)) /\ ~(Rank(S, R, n) < Rank(S, R, m))
    BY <1>3, <1>6
  <2> QED
    BY <1>2, <2>1 DEF Orders
<1>4. T = 0 .. N - 1
  <2>1. f \in Bijection(S, T)
    BY <1>3 DEF Bijection, Injection, Surjection, IsInjective
  <2> HIDE DEF f
  <2>2. IsFiniteSet(T) /\ Cardinality(T) = N
    BY <1>0, <2>1, FS_Bijection DEF ExistsBijection
  <2>3. T \subseteq 0 .. N - 1
    BY <1>6
  <2>4. IsFiniteSet(0 .. N - 1) /\ Cardinality(0 .. N - 1) = N
    BY FS_Interval
  <2> HIDE DEF T
  <2> QED
    BY <2>2, <2>3, <2>4, FS_Subset
<1>5. ASSUME NEW i \in 0 .. N - 1 PROVE \E m \in S : Rank(S, R, m) = i
  <2>1. i \in T
    BY <1>4
  <2> QED
    BY <2>1
<1> QED
  BY <1>0, <1>2, <1>3, <1>5, <1>6

\* One rank at a time.
LEMMA EveryRankTaken ==
    ASSUME NEW S, IsFiniteSet(S), NEW R, Orders(R, S), NEW i \in 0 .. Cardinality(S) - 1
    PROVE  \E m \in S : Rank(S, R, m) = i
BY RankProperties

\* The first element that a list without duplicates holds at place i is
\* removed there.
LEMMA RemoveFirstIsRemoveAt ==
    ASSUME NEW S, NEW s \in Seq(S), IsInjective(s), NEW i \in 1 .. Len(s)
    PROVE  RemoveFirst(s, s[i]) = RemoveAt(s, i)
<1>0. DOMAIN s = 1 .. Len(s) /\ Len(s) \in Nat
  BY LenProperties
<1> DEFINE I == {j \in 1 .. Len(s) : s[j] = s[i]}
<1>1. I = {i}
  BY <1>0 DEF IsInjective
<1>2. Min(I) = i
  BY <1>1 DEF Min
<1>3. RemoveFirst(s, s[i]) = RemoveAt(s, Min(I))
  BY <1>1 DEF RemoveFirst, SelectInSeq
<1> QED
  BY <1>2, <1>3

\* The places of a finite set of numbers, counted from the least.
LEMMA NthProperties ==
    ASSUME NEW P \in SUBSET Int, IsFiniteSet(P)
    PROVE  /\ Cardinality(P) \in Nat
           /\ \A i \in 1 .. Cardinality(P) : Nth(P, i) \in P
           /\ \A i, j \in 1 .. Cardinality(P) : i < j => Nth(P, i) < Nth(P, j)
           /\ \A k \in P : \E i \in 1 .. Cardinality(P) : Nth(P, i) = k
<1> DEFINE N == Cardinality(P)
           Below(k) == Cardinality({j \in P : j < k})
<1>0. PICK R : \A x, y \in P : <<x, y>> \in R <=> x < y
  <2> DEFINE Q == {x \in P \X P : x[1] < x[2]}
  <2>1. \A x, y \in P : <<x, y>> \in Q <=> x < y
    OBVIOUS
  <2> QED
    BY <2>1
<1>1. Orders(R, P)
  BY <1>0 DEF Orders
<1>2. /\ Cardinality(P) \in Nat
      /\ \A m \in P : Rank(P, R, m) \in 0 .. Cardinality(P) - 1
      /\ \A m, n \in P : Rank(P, R, m) = Rank(P, R, n) => m = n
      /\ \A i \in 0 .. Cardinality(P) - 1 : \E m \in P : Rank(P, R, m) = i
  <2>1. Cardinality(P) \in Nat
    BY FS_CardinalityType
  <2>2. ASSUME NEW m \in P PROVE Rank(P, R, m) \in 0 .. Cardinality(P) - 1
    BY <1>1, RankProperties
  <2>3. ASSUME NEW m \in P, NEW n \in P, Rank(P, R, m) = Rank(P, R, n) PROVE m = n
    BY <1>1, <2>3, RankProperties
  <2>4. ASSUME NEW i \in 0 .. Cardinality(P) - 1 PROVE \E m \in P : Rank(P, R, m) = i
    BY <1>1, EveryRankTaken
  <2> QED
    BY <2>1, <2>2, <2>3, <2>4
<1>3. /\ N \in Nat
      /\ \A m \in P : Below(m) \in 0 .. N - 1
      /\ \A m, n \in P : m < n => Below(m) < Below(n)
      /\ \A m, n \in P : Below(m) = Below(n) => m = n
      /\ \A i \in 0 .. N - 1 : \E m \in P : Below(m) = i
  <2>1. ASSUME NEW k \in P PROVE Rank(P, R, k) = Below(k)
    <3>1. {x \in P : <<x, k>> \in R} = {j \in P : j < k}
      BY <1>0
    <3> QED
      BY <3>1 DEF Rank
  <2> HIDE DEF Below
  <2>2. \A m \in P : Below(m) \in 0 .. N - 1
    BY <1>2, <2>1
  <2>3. ASSUME NEW m \in P, NEW n \in P, m < n
        PROVE  Below(m) < Below(n)
    <3>1. <<m, n>> \in R
      BY <1>0, <2>3
    <3>2. Rank(P, R, m) < Rank(P, R, n)
      BY <1>1, <3>1, RankProperties
    <3> QED
      BY <2>1, <3>2
  <2>4. \A m, n \in P : Below(m) = Below(n) => m = n
    BY <1>2, <2>1
  <2>5. \A i \in 0 .. N - 1 : \E m \in P : Below(m) = i
    BY <1>2, <2>1
  <2> QED
    BY <1>2, <2>2, <2>3, <2>4, <2>5
<1> HIDE DEF N, Below
<1>4. \A m, n \in P : Below(m) < Below(n) => m < n
  <2> SUFFICES ASSUME NEW m \in P, NEW n \in P, Below(m) < Below(n), ~(m < n)
               PROVE  FALSE
    OBVIOUS
  <2>1. m = n \/ n < m
    OBVIOUS
  <2> QED
    BY <1>3, <2>1
<1>5. ASSUME NEW i \in 1 .. N
      PROVE  Nth(P, i) \in P /\ Below(Nth(P, i)) = i - 1
  <2>1. i - 1 \in 0 .. N - 1
    BY <1>3
  <2>2. \E k \in P : Below(k) = i - 1
    BY <1>3, <2>1
  <2>3. Nth(P, i) = CHOOSE k \in P : Below(k) = i - 1
    BY DEF Nth, Below
  <2> QED
    BY <2>2, <2>3
<1>6. ASSUME NEW i \in 1 .. N, NEW j \in 1 .. N, i < j
      PROVE  Nth(P, i) < Nth(P, j)
  <2>1. Below(Nth(P, i)) < Below(Nth(P, j))
    BY <1>3, <1>5, <1>6
  <2> QED
    BY <1>4, <1>5, <2>1
<1>7. ASSUME NEW k \in P
      PROVE  \E i \in 1 .. N : Nth(P, i) = k
  <2>1. Below(k) + 1 \in 1 .. N
    BY <1>3
  <2>2. Nth(P, Below(k) + 1) \in P /\ Below(Nth(P, Below(k) + 1)) = Below(k)
    BY <1>3, <1>5, <2>1
  <2>3. Nth(P, Below(k) + 1) = k
    BY <1>3, <2>2
  <2> QED
    BY <2>1, <2>3
<1> QED
  BY <1>3, <1>5, <1>6, <1>7 DEF N

\* A sublist holds the elements at the places, no two of them exchanged.
LEMMA SublistProperties ==
    ASSUME NEW S, NEW s \in Seq(S), NEW P \in SUBSET (1 .. Len(s))
    PROVE  /\ IsFiniteSet(P) /\ Cardinality(P) \in 0 .. Len(s)
           /\ Sublist(s, P) \in Seq(S) /\ Len(Sublist(s, P)) = Cardinality(P)
           /\ \A i \in 1 .. Cardinality(P) : Sublist(s, P)[i] = s[Nth(P, i)] /\ Nth(P, i) \in P
           /\ \A i, j \in 1 .. Cardinality(P) : i < j => Nth(P, i) < Nth(P, j)
           /\ \A k \in P : \E i \in 1 .. Cardinality(P) : Nth(P, i) = k
           /\ ToSet(Sublist(s, P)) = {s[k] : k \in P}
           /\ IsInjective(s) => IsInjective(Sublist(s, P))
<1>0. /\ Len(s) \in Nat /\ DOMAIN s = 1 .. Len(s) /\ \A k \in 1 .. Len(s) : s[k] \in S
  BY LenProperties, ElementOfSeq
<1>1. IsFiniteSet(1 .. Len(s)) /\ Cardinality(1 .. Len(s)) = Len(s)
  BY <1>0, FS_Interval
<1>2. IsFiniteSet(P) /\ Cardinality(P) <= Len(s) /\ Cardinality(P) \in Nat /\ P \in SUBSET Int
  <2>1. IsFiniteSet(P) /\ Cardinality(P) <= Cardinality(1 .. Len(s))
    BY <1>1, FS_Subset
  <2>2. P \in SUBSET Int
    BY <1>0
  <2> QED
    BY <1>1, <2>1, <2>2, FS_CardinalityType
<1> DEFINE N == Cardinality(P)
           t == Sublist(s, P)
<1>3. /\ N \in 0 .. Len(s)
      /\ \A i \in 1 .. N : Nth(P, i) \in P
      /\ \A i, j \in 1 .. N : i < j => Nth(P, i) < Nth(P, j)
      /\ \A k \in P : \E i \in 1 .. N : Nth(P, i) = k
  BY <1>0, <1>2, NthProperties
<1>4. t = [i \in 1 .. N |-> s[Nth(P, i)]]
  BY DEF Sublist
<1> HIDE DEF N, t
<1>5. t \in Seq(S) /\ Len(t) = N /\ DOMAIN t = 1 .. N /\ \A i \in 1 .. N : t[i] = s[Nth(P, i)]
  <2>1. \A i \in 1 .. N : s[Nth(P, i)] \in S
    BY <1>0, <1>3
  <2>2. t \in [1 .. N -> S] /\ N \in Nat
    BY <1>0, <1>3, <1>4, <2>1
  <2> QED
    BY <1>4, <2>2
<1>6. ToSet(t) = {s[k] : k \in P}
  <2>1. ToSet(t) = {t[i] : i \in 1 .. N}
    BY <1>5 DEF ToSet
  <2>2. ASSUME NEW i \in 1 .. N
        PROVE  t[i] \in {s[k] : k \in P}
    BY <1>3, <1>5
  <2>3. ASSUME NEW k \in P
        PROVE  s[k] \in {t[i] : i \in 1 .. N}
    <3>1. PICK i \in 1 .. N : Nth(P, i) = k
      BY <1>3
    <3>2. t[i] = s[k]
      BY <1>5, <3>1
    <3> QED
      BY <3>2
  <2> QED
    BY <2>1, <2>2, <2>3
<1>7. ASSUME IsInjective(s) PROVE IsInjective(t)
  <2> SUFFICES ASSUME NEW i \in 1 .. N, NEW j \in 1 .. N, t[i] = t[j]
               PROVE  i = j
    BY <1>5 DEF IsInjective
  <2>1. Nth(P, i) = Nth(P, j)
    BY <1>0, <1>3, <1>5, <1>7 DEF IsInjective
  <2>2. PICK a \in Int : a = Nth(P, i)
    BY <1>2, <1>3
  <2>3. ~(i < j) /\ ~(j < i)
    BY <1>3, <2>1, <2>2
  <2> QED
    BY <1>3, <2>3
<1> QED
  BY <1>2, <1>3, <1>5, <1>6, <1>7 DEF N, t

\* The least of a finite set of numbers.
LEMMA LeastIsMin ==
    ASSUME NEW P \in SUBSET Int, IsFiniteSet(P), P # {}
    PROVE  Min(P) \in P /\ \A k \in P : Min(P) <= k
<1>1. PICK a \in P : a = Nth(P, 1)
  <2>1. Cardinality(P) \in Nat /\ Cardinality(P) # 0
    BY FS_CardinalityType, FS_EmptySet
  <2>2. 1 \in 1 .. Cardinality(P)
    BY <2>1
  <2> QED
    BY <2>2, NthProperties
<1>2. ASSUME NEW k \in P PROVE a <= k
  <2>1. PICK i \in 1 .. Cardinality(P) : Nth(P, i) = k
    BY NthProperties
  <2>2. Cardinality(P) \in Nat /\ 1 \in 1 .. Cardinality(P)
    BY <2>1, FS_CardinalityType
  <2>3. CASE i = 1
    BY <1>1, <2>1, <2>3
  <2>4. CASE 1 < i
    <3>1. Nth(P, 1) < Nth(P, i)
      BY <2>2, <2>4, NthProperties
    <3> QED
      BY <1>1, <2>1, <3>1
  <2> QED
    BY <2>2, <2>3, <2>4
<1>3. \E x \in P : \A y \in P : x <= y
  BY <1>2
<1> QED
  BY <1>3 DEF Min

\* A sublist keeps the order.
LEMMA SublistEmbeds ==
    ASSUME NEW S, NEW s \in Seq(S), NEW P \in SUBSET (1 .. Len(s))
    PROVE  Embeds(Sublist(s, P), s)
<1> DEFINE t == Sublist(s, P)
           N == Cardinality(P)
<1>1. /\ t \in Seq(S) /\ Len(t) = N /\ N \in Nat
      /\ \A i \in 1 .. N : t[i] = s[Nth(P, i)] /\ Nth(P, i) \in P
      /\ \A i, j \in 1 .. N : i < j => Nth(P, i) < Nth(P, j)
  BY SublistProperties
<1>2. DOMAIN t = 1 .. N /\ DOMAIN s = 1 .. Len(s)
  BY <1>1, LenProperties
<1> HIDE DEF t, N
<1>3. ASSUME NEW i \in 1 .. N, NEW j \in 1 .. N, i < j
      PROVE  \E c, d \in DOMAIN s : c < d /\ t[i] = s[c] /\ t[j] = s[d]
  <2>1. /\ Nth(P, i) \in DOMAIN s /\ Nth(P, j) \in DOMAIN s /\ Nth(P, i) < Nth(P, j)
        /\ t[i] = s[Nth(P, i)] /\ t[j] = s[Nth(P, j)]
    BY <1>1, <1>2, <1>3
  <2> QED
    BY <2>1
<1> QED
  BY <1>2, <1>3 DEF Embeds, t

\* A new element at the end.
LEMMA AppendKeeps ==
    ASSUME NEW S, NEW s \in Seq(S), IsInjective(s), NEW x \in S, x \notin ToSet(s)
    PROVE  /\ Append(s, x) \in Seq(S)
           /\ Len(Append(s, x)) = Len(s) + 1 /\ Len(s) \in Nat
           /\ \A j \in 1 .. Len(s) : Append(s, x)[j] = s[j]
           /\ Append(s, x)[Len(s) + 1] = x
           /\ IsInjective(Append(s, x))
           /\ ToSet(Append(s, x)) = ToSet(s) \cup {x}
<1>0. Len(s) \in Nat /\ DOMAIN s = 1 .. Len(s)
  BY LenProperties
<1> DEFINE t == Append(s, x)
<1>1. /\ t \in Seq(S) /\ Len(t) = Len(s) + 1
      /\ \A j \in 1 .. Len(s) : t[j] = s[j]
      /\ t[Len(s) + 1] = x
  BY <1>0, AppendProperties
<1>2. DOMAIN t = 1 .. Len(s) + 1
  BY <1>1, LenProperties
<1> HIDE DEF t
<1>3. \A j \in 1 .. Len(s) : s[j] # x
  BY <1>0 DEF ToSet
<1>4. IsInjective(t)
  <2> SUFFICES ASSUME NEW i \in 1 .. Len(s) + 1, NEW j \in 1 .. Len(s) + 1, t[i] = t[j]
               PROVE  i = j
    BY <1>2 DEF IsInjective
  <2>1. CASE i \in 1 .. Len(s) /\ j \in 1 .. Len(s)
    BY <1>0, <1>1, <2>1 DEF IsInjective
  <2>2. CASE i = Len(s) + 1 \/ j = Len(s) + 1
    BY <1>0, <1>1, <1>3, <2>2
  <2> QED
    BY <1>0, <2>1, <2>2
<1>5. ToSet(t) = ToSet(s) \cup {x}
  <2>1. ToSet(t) = {t[i] : i \in 1 .. Len(s) + 1} /\ ToSet(s) = {s[i] : i \in 1 .. Len(s)}
    BY <1>0, <1>2 DEF ToSet
  <2>2. ASSUME NEW i \in 1 .. Len(s) + 1 PROVE t[i] \in ToSet(s) \cup {x}
    BY <1>0, <1>1, <2>1
  <2>3. ASSUME NEW y \in ToSet(s) \cup {x} PROVE \E i \in 1 .. Len(s) + 1 : t[i] = y
    <3>1. CASE y = x
      BY <1>0, <1>1, <3>1
    <3>2. CASE y \in ToSet(s)
      <4>1. PICK i \in 1 .. Len(s) : y = s[i]
        BY <2>1, <3>2
      <4>2. i \in 1 .. Len(s) + 1 /\ t[i] = y
        BY <1>0, <1>1, <4>1
      <4> QED
        BY <4>2
    <3> QED
      BY <3>1, <3>2
  <2>4. \A y : y \in ToSet(t) <=> \E i \in 1 .. Len(s) + 1 : t[i] = y
    BY <2>1
  <2> HIDE DEF t
  <2> QED
    BY <2>2, <2>3, <2>4
<1> QED
  BY <1>0, <1>1, <1>4, <1>5 DEF t

\* Without its first n elements a list holds the others, in order.
LEMMA DropFrontKeeps ==
    ASSUME NEW S, NEW s \in Seq(S), IsInjective(s), NEW n \in 0 .. Len(s)
    PROVE  LET r == SubSeq(s, n + 1, Len(s))
               f == SubSeq(s, 1, n)
           IN  /\ r \in Seq(S) /\ IsInjective(r) /\ Embeds(r, s)
               /\ ToSet(r) = ToSet(s) \ ToSet(f)
               /\ ToSet(f) = {s[i] : i \in 1 .. n}
<1> DEFINE r == SubSeq(s, n + 1, Len(s))
           f == SubSeq(s, 1, n)
<1>0. Len(s) \in Nat /\ DOMAIN s = 1 .. Len(s)
  BY LenProperties
<1>1. /\ r \in Seq(S) /\ DOMAIN r = 1 .. Len(s) - n
      /\ \A j \in 1 .. Len(s) - n : r[j] = s[n + j]
  <2>1. /\ r \in Seq(S) /\ Len(r) = Len(s) - n
        /\ \A j \in 1 .. Len(s) - n : r[j] = s[n + j]
    <3>1. n + 1 \in 1 .. Len(s) + 1
      BY <1>0
    <3>2. /\ r \in Seq(S) /\ Len(r) = (IF n + 1 <= Len(s) THEN Len(s) - (n + 1) + 1 ELSE 0)
          /\ \A j \in 1 .. Len(s) - (n + 1) + 1 : r[j] = s[(n + 1) + j - 1]
      <4>1. \A x \in n + 1 .. Len(s) : s[x] \in S
        BY <1>0, ElementOfSeq
      <4> QED
        BY <1>0, <3>1, <4>1, SubSeqProperties
    <3> HIDE DEF r
    <3>4. ASSUME NEW j \in 1 .. Len(s) - n
          PROVE  r[j] = s[n + j]
      <4>1. j \in 1 .. Len(s) - (n + 1) + 1 /\ (n + 1) + j - 1 = n + j
        BY <1>0
      <4> QED
        BY <3>2, <4>1
    <3>5. Len(r) = Len(s) - n
      <4>1. Len(r) = IF n + 1 <= Len(s) THEN Len(s) - (n + 1) + 1 ELSE 0
        BY <3>2
      <4>2. \A m \in Nat : \A l \in 0 .. m :
               (IF l + 1 <= m THEN m - (l + 1) + 1 ELSE 0) = m - l
        OBVIOUS
      <4> QED
        BY <1>0, <4>1, <4>2
    <3> QED
      BY <3>2, <3>4, <3>5
  <2> QED
    BY <2>1, LenProperties
<1>2. DOMAIN f = 1 .. n /\ \A j \in 1 .. n : f[j] = s[j]
  <2>1. \A x \in 1 .. n : s[x] \in S
    BY <1>0, ElementOfSeq
  <2>2. f \in Seq(S) /\ Len(f) = n /\ \A j \in 1 .. n : f[j] = s[j]
    BY <1>0, <2>1, SubSeqProperties
  <2> QED
    BY <2>2, LenProperties
<1> HIDE DEF r, f
<1>3. ToSet(s) = {s[i] : i \in 1 .. Len(s)} /\ ToSet(r) = {r[i] : i \in 1 .. Len(s) - n}
  BY <1>0, <1>1 DEF ToSet
<1>4. ToSet(f) = {s[i] : i \in 1 .. n}
  BY <1>2 DEF ToSet
<1>5. \A i, j \in 1 .. Len(s) : s[i] = s[j] => i = j
  BY <1>0 DEF IsInjective
<1>6. IsInjective(r)
  <2> SUFFICES ASSUME NEW i \in 1 .. Len(s) - n, NEW j \in 1 .. Len(s) - n, r[i] = r[j]
               PROVE  i = j
    BY <1>1 DEF IsInjective
  <2>1. n + i \in 1 .. Len(s) /\ n + j \in 1 .. Len(s) /\ s[n + i] = s[n + j]
    BY <1>0, <1>1
  <2>2. n + i = n + j
    BY <1>5, <2>1
  <2> QED
    BY <1>0, <2>2
<1>7. Embeds(r, s)
  <2> SUFFICES ASSUME NEW i \in DOMAIN r, NEW j \in DOMAIN r, i < j
               PROVE  \E c, d \in DOMAIN s : c < d /\ r[i] = s[c] /\ r[j] = s[d]
    BY DEF Embeds
  <2>0. i \in 1 .. Len(s) - n /\ j \in 1 .. Len(s) - n
    BY <1>1
  <2>1. /\ n + i \in DOMAIN s /\ n + j \in DOMAIN s /\ n + i < n + j
        /\ r[i] = s[n + i] /\ r[j] = s[n + j]
    <3>1. r[i] = s[n + i] /\ r[j] = s[n + j]
      BY <1>1, <2>0
    <3>2. n + i \in 1 .. Len(s) /\ n + j \in 1 .. Len(s) /\ n + i < n + j
      BY <1>0, <2>0
    <3> QED
      BY <1>0, <3>1, <3>2
  <2> QED
    BY <2>1
<1>8. ToSet(r) = ToSet(s) \ ToSet(f)
  <2>1. ASSUME NEW i \in 1 .. Len(s) - n PROVE r[i] \in ToSet(s) \ ToSet(f)
    <3>1. n + i \in 1 .. Len(s) /\ r[i] = s[n + i] /\ ~(n + i <= n)
      <4>1. r[i] = s[n + i]
        BY <1>1
      <4>2. n + i \in 1 .. Len(s) /\ ~(n + i <= n)
        BY <1>0
      <4> QED
        BY <4>1, <4>2
    <3>2. ASSUME NEW j \in 1 .. n PROVE s[j] # s[n + i]
      <4>1. j \in 1 .. Len(s) /\ j # n + i
        BY <1>0, <3>1
      <4> QED
        BY <1>5, <3>1, <4>1
    <3> QED
      BY <1>3, <1>4, <3>1, <3>2
  <2>2. ASSUME NEW y \in ToSet(s) \ ToSet(f) PROVE y \in ToSet(r)
    <3>1. PICK i \in 1 .. Len(s) : y = s[i]
      BY <1>3
    <3>2. ~(i <= n)
      BY <1>0, <1>4, <3>1
    <3>3. i - n \in 1 .. Len(s) - n /\ n + (i - n) = i
      BY <1>0, <3>2
    <3>4. r[i - n] = y
      BY <1>1, <3>1, <3>3
    <3> QED
      BY <1>3, <3>3, <3>4
  <2> QED
    BY <1>3, <2>1, <2>2
<1> QED
  BY <1>1, <1>4, <1>6, <1>7, <1>8 DEF r, f
============================================================================
