-------------------------------- MODULE Ring --------------------------------
(***************************************************************************)
(* The consistent-hash ring of internal/ring/ring.go: every physical node  *)
(* is placed on the circle vnodesPerNode times, and a key belongs to the   *)
(* first distinct nodes met walking clockwise from its hash.               *)
(*                                                                         *)
(* FNV-1a is an arbitrary function here: Init leaves open where the        *)
(* virtual nodes fall, collisions included, and a key is its hash.  Node   *)
(* identifiers are numbers, ordered like the strings they stand for.       *)
(* Every method holds the lock throughout, so each is one step.            *)
(***************************************************************************)
EXTENDS Integers, FiniteSets, SequencesExt, Places

CONSTANTS
    Ids,            \* physical nodes that may be on the ring
    vnodesPerNode,  \* placements per node
    HashSpace       \* size of the circle; 2^32 in the code

ASSUME IdsAssumption == Ids \subseteq Nat
ASSUME RingAssumption == vnodesPerNode \in Nat \ {0} /\ HashSpace \in Nat \ {0}

Hashes == 0 .. HashSpace - 1

VARIABLES
    hash,   \* hash[id][i] = Hash32(VNodeName(id, i)); never changes
    nodes,  \* physical nodes on the ring
    ring    \* virtual nodes, sorted

ringVars == <<hash, nodes, ring>>

vnodes(S) == {[hash |-> hash[id][i], id |-> id, i |-> i] : id \in S, i \in 1 .. vnodesPerNode}

\* The order of the virtual nodes; two of the same node at the same place are
\* alike, and their index only keeps them apart here.
Before(v, w) ==
    \/ v.hash < w.hash
    \/ v.hash = w.hash /\ v.id < w.id
    \/ v.hash = w.hash /\ v.id = w.id /\ v.i < w.i

\* The sorted ring: the k-th place goes to the virtual node with k - 1 before
\* it.
rebuildLocked(S) ==
    LET vs == vnodes(S)
        At(k) == CHOOSE v \in vs : Cardinality({w \in vs : Before(w, v)}) = k - 1
    IN  [k \in 1 .. Cardinality(vs) |-> [hash |-> At(k).hash, id |-> At(k).id]]

RingInit ==
    /\ hash \in [Ids -> [1 .. vnodesPerNode -> Hashes]]
    /\ nodes = {}
    /\ ring = <<>>

\* The new placements go to the end, and again if the node was there already.
AddNodeAppends(id) ==
    /\ nodes' = nodes \cup {id}
    /\ ring' = ring \o rebuildLocked({id})
    /\ UNCHANGED hash

\* Add.  A node that is there already stays as it is.
AddNode(id) ==
    /\ nodes' = nodes \cup {id}
    /\ ring' = IF id \in nodes THEN ring ELSE rebuildLocked(nodes')
    /\ UNCHANGED hash

\* The placements of the node stay behind.
RemoveNodeNoRebuild(id) ==
    /\ nodes' = nodes \ {id}
    /\ UNCHANGED <<hash, ring>>

\* Remove.
RemoveNode(id) ==
    /\ nodes' = nodes \ {id}
    /\ ring' = IF id \notin nodes THEN ring ELSE rebuildLocked(nodes')
    /\ UNCHANGED hash

RingNext == \E id \in Ids : AddNode(id) \/ RemoveNode(id)

RingSpec == RingInit /\ [][RingNext]_ringVars
----------------------------------------------------------------------------
(* Placement on ring rg of a key with hash h. *)

\* sort.Search: the first virtual node at or after h, the first of all when
\* the walk has to start by wrapping around.
Search(rg, h) ==
    LET at == {k \in DOMAIN rg : rg[k].hash >= h}
    IN  IF at = {} THEN 1 ELSE Min(at)

WalkToEnd(rg, i) == SubSeq(rg, i, Len(rg))

\* The ring as the walk from position i sees it, once around.
WalkFrom(rg, i) == SubSeq(rg, i, Len(rg)) \o SubSeq(rg, 1, i - 1)

\* The nodes of the walk that it has not met before, until there are n.
OwnersOn(rg, h, n) ==
    IF n < 1 \/ rg = <<>> THEN <<>>
    ELSE LET walk == WalkFrom(rg, Search(rg, h))
             met  == {k \in DOMAIN walk : \A j \in 1 .. k - 1 : walk[j].id # walk[k].id}
         IN  [i \in 1 .. Min({n, Cardinality(met)}) |-> walk[Nth(met, i)].id]

Owners(h, n) == OwnersOn(ring, h, n)
----------------------------------------------------------------------------
(* Properties. *)

\* The ring is the placements of the nodes that are on it, and nothing else: a
\* node is at a place as often as the hash puts one of its vnodesPerNode virtual
\* nodes there, however often it was added or removed.
RingTypeOK ==
    /\ hash \in [Ids -> [1 .. vnodesPerNode -> Hashes]]
    /\ nodes \in SUBSET Ids
    /\ ring \in Seq([hash: Hashes, id: nodes])
    /\ \A id \in nodes, h \in Hashes :
          Cardinality({k \in DOMAIN ring : ring[k] = [hash |-> h, id |-> id]})
            = Cardinality({i \in 1 .. vnodesPerNode : hash[id][i] = h})

\* How far clockwise of h the nearest placement of a node is.
Distance(h, id) == Min({(hash[id][i] - h) % HashSpace : i \in 1 .. vnodesPerNode})

\* Whether a key belongs to x rather than to y: the smaller identifier comes
\* first where placements collide.
Nearer(h, x, y) ==
    \/ Distance(h, x) < Distance(h, y)
    \/ Distance(h, x) = Distance(h, y) /\ x < y

\* What Owners is for, said without a ring, a search or a walk: the n nodes
\* nearest to the key going clockwise, nearest first, each once; all nodes if
\* there are fewer.  In particular more replicas never change who the primary
\* is.
OwnersAreClosest ==
    \A h \in Hashes, n \in 0 .. Cardinality(Ids) + 1 :
        LET s == Owners(h, n)
        IN  /\ Len(s) = Min({n, Cardinality(nodes)})
            /\ \A i \in 1 .. Len(s) :
                  /\ s[i] \in nodes \ {s[j] : j \in 1 .. i - 1}
                  /\ \A x \in nodes \ {s[j] : j \in 1 .. i} : Nearer(h, s[i], x)

\* A join or a leave moves nothing between the nodes that stay: a new owner
\* list is the old one with the node that joined put in (and the last owners
\* pushed out), and a leave is the reverse.  A key that the node does not own
\* stays where it is.
MinimalDisruption ==
    [][\A old \in {ring}, new \in {ring'} : \A h \in Hashes, n \in 1 .. Cardinality(Ids) :
         LET was == OwnersOn(old, h, n)
             is  == OwnersOn(new, h, n)
             Stay(s) == Sublist(s, {i \in DOMAIN s : s[i] \in nodes \cap nodes'})
         IN  /\ nodes \subseteq nodes' => IsPrefix(Stay(is), was)
             /\ nodes' \subseteq nodes => IsPrefix(Stay(was), is)]_ringVars
============================================================================
