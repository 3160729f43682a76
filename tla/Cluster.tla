------------------------------ MODULE Cluster ------------------------------
(***************************************************************************)
(* The replicated read and write path of internal/node/node.go for one     *)
(* key: coordinators that fan SET and DELETE out to the key's owners, walk *)
(* the owners on GET, repair the others after a hit, and skip peers that   *)
(* failed recently.                                                        *)
(*                                                                         *)
(* Every process has a ring of its own, which only calls to that process   *)
(* change; join and leave are one step here (module Membership takes them  *)
(* apart).  What a ring does for one key is module Ring: its owners are    *)
(* the first of its members that the walk from the key meets.  What the    *)
(* store of a node does for the key is the interface of module Store: Get, *)
(* Set with last-writer-wins, Delete, and the removals that other keys     *)
(* (eviction), time (expiry) and crashes cause.                            *)
(*                                                                         *)
(* An RPC is its request on the wire ("sent"), served at the owner         *)
(* ("done"), and a verdict at the coordinator.  The coordinator may give   *)
(* up at any time (client.Timeout, a refused connection, a client that     *)
(* hung up); the request then stays on the wire and may be served late,    *)
(* or never.                                                               *)
(*                                                                         *)
(* Time is in ticks of which a millisecond has Ms: TTLs travel between     *)
(* nodes in whole milliseconds.  The value of a SET is the request itself. *)
(***************************************************************************)
EXTENDS Integers, FiniteSets, SequencesExt

CONSTANTS
    Nodes,      \* processes of the cluster
    Walk,       \* the nodes as the walk around the ring from the key meets them
    Peers,      \* Peers[n]: the ids in the cfg.Peers of process n
    ReplicasFlag,  \* cfg.Replicas as it was asked for
    Changes,    \* calls to /admin/members that processes may get
    SetReqs,    \* requests to /v1/set, /v1/get and /v1/delete that
    GetReqs,    \*   clients may make
    DelReqs,
    Stamps,     \* written_at of a SET: its own or its coordinator's clock
    TTLs,       \* ttl_ms of a SET
    Ms,         \* ticks in a millisecond
    BreakFor,   \* how long a peer is skipped after an error, in ticks
    Faults,     \* subset of {"crash", "evict", "rpc"}: what may go wrong
    MaxTime,    \* bound on the clock
    Absent      \* no entry

Reqs == SetReqs \cup GetReqs \cup DelReqs

ASSUME WalkAssumption ==
    /\ Walk \in Seq(Nodes) /\ IsInjective(Walk) /\ ToSet(Walk) = Nodes
ASSUME PeersAssumption ==
    /\ Peers \in [Nodes -> SUBSET Nodes] /\ \A n \in Nodes : n \in Peers[n]
    /\ ReplicasFlag \in Nat \ {0}
ASSUME ChangesAssumption == Changes \subseteq [op: {"join", "leave"}, id: Nodes]
ASSUME ReqsAssumption ==
    /\ SetReqs \cap GetReqs = {} /\ SetReqs \cap DelReqs = {}
    /\ GetReqs \cap DelReqs = {}
ASSUME NumbersAssumption ==
    /\ Stamps \subseteq Nat \ {0}
    /\ TTLs \subseteq Nat
    /\ Ms \in Nat \ {0}
    /\ BreakFor \in Nat \ {0}
    /\ MaxTime \in Nat

Entry == [val: SetReqs, at: Stamps, exp: Nat]       \* exp = 0: no TTL
Body == [val: SetReqs, at: Stamps, ttl: Nat]        \* kvBody of a PUT
Reply == [val: SetReqs, at: Stamps, ttl: Nat \cup {-1}]  \* -1: no ttl field

ASSUME AbsentAssumption ==
    Absent \notin Entry \cup Body \cup Reply \cup [val: SetReqs, at: Stamps] \cup Nodes

VARIABLES
    now,        \* the clock; one for all nodes
    up,         \* the processes that run
    members,    \* members[n]: the ids on the ring of n
    store,      \* store[n]: what node n holds for the key
    downUntil,  \* downUntil[n][p]: n skips p before this time; 0 = no entry
    pc,         \* where the handler of a request is
    coord,      \* the node that handles it
    owners,     \* the owners of the key on the ring of that node, primary first
    body,       \* what it writes to owners (SET, or the repair of a GET)
    wire,       \* wire[r][o]: the write of r to owner o
    verdict,    \* verdict[r][o]: what fanout has heard of it
    idx,        \* GET: position in the walk over the owners
    reached,    \* GET: some owner has answered
    reply,      \* GET: what the owner being asked has answered
    code,       \* HTTP status; 0 = none yet
    (* History variables, read by no action. *)
    lastErr,    \* lastErr[n][p]: when an RPC of n to p last failed
    nameless,   \* nameless[n]: the peers for which n has had no URL
    wiped,      \* an entry has gone or expired on some owner
    before,     \* GET: SETs that all their owners had acked when it began
    unheard     \* GET: owners that it got no answer from

req_vars == <<pc, coord, owners, body, wire, verdict, idx, reached, reply, code>>
hist == <<lastErr, nameless, wiped, before, unheard>>
vars == <<now, up, members, store, downUntil, req_vars, hist>>

TypeOK ==
    /\ now \in Nat
    /\ up \in SUBSET Nodes
    /\ members \in [Nodes -> SUBSET Nodes]
    /\ store \in [Nodes -> Entry \cup {Absent}]
    /\ downUntil \in [Nodes -> [Nodes -> Nat]]
    /\ pc \in [Reqs -> {"idle", "fanout", "walk", "rpc", "replied", "done", "dead"}]
    /\ coord \in [Reqs -> Nodes \cup {Absent}]
    /\ owners \in [Reqs -> Seq(Nodes)]
    /\ body \in [Reqs -> Body \cup {Absent}]
    /\ wire \in [Reqs -> [Nodes -> {"none", "sent", "done"}]]
    /\ verdict \in [Reqs -> [Nodes -> {"none", "wait", "ok", "err"}]]
    /\ idx \in [Reqs -> Nat]
    /\ reached \in [Reqs -> BOOLEAN]
    /\ reply \in [Reqs -> Reply \cup {Absent}]
    /\ code \in [Reqs -> {0, 200, 404, 503}]
    /\ lastErr \in [Nodes -> [Nodes -> Nat]]
    /\ nameless \in [Nodes -> SUBSET Nodes]
    /\ wiped \in BOOLEAN
    /\ before \in [Reqs -> SUBSET SetReqs]
    /\ unheard \in [Reqs -> SUBSET Nodes]

Init ==
    /\ now = 1
    /\ up = Nodes
    /\ members = Peers
    /\ store = [n \in Nodes |-> Absent]
    /\ downUntil = [n \in Nodes |-> [p \in Nodes |-> 0]]
    /\ pc = [r \in Reqs |-> "idle"]
    /\ coord = [r \in Reqs |-> Absent]
    /\ owners = [r \in Reqs |-> <<>>]
    /\ body = [r \in Reqs |-> Absent]
    /\ wire = [r \in Reqs |-> [n \in Nodes |-> "none"]]
    /\ verdict = [r \in Reqs |-> [n \in Nodes |-> "none"]]
    /\ idx = [r \in Reqs |-> 0]
    /\ reached = [r \in Reqs |-> FALSE]
    /\ reply = [r \in Reqs |-> Absent]
    /\ code = [r \in Reqs |-> 0]
    /\ lastErr = [n \in Nodes |-> [p \in Nodes |-> 0]]
    /\ nameless = [n \in Nodes |-> {}]
    /\ wiped = FALSE
    /\ before = [r \in Reqs |-> {}]
    /\ unheard = [r \in Reqs |-> {}]
----------------------------------------------------------------------------
(* Membership. *)

\* New caps the replication factor once, at the number of peers a process is
\* started with.
Replicas(n) == Min({ReplicasFlag, Cardinality(Peers[n])})

\* The walk meets x before m.
MetBefore(x, m) == \E i, j \in DOMAIN Walk : i < j /\ Walk[i] = x /\ Walk[j] = m

\* The i-th of the nodes in S that the walk meets.
Met(S, i) == CHOOSE m \in S : Cardinality({x \in S : MetBefore(x, m)}) = i - 1

RingOwnersOneShort(n) ==
    [i \in 1 .. Min({Replicas(n), Cardinality(members[n])}) - 1 |-> Met(members[n], i)]

\* ring.Owners(key, R) on the ring of n.
RingOwners(n) ==
    [i \in 1 .. Min({Replicas(n), Cardinality(members[n])}) |-> Met(members[n], i)]

OwnerSet(r) == ToSet(owners[r])

join(n, id) ==
    /\ [op |-> "join", id |-> id] \in Changes /\ n \in up
    /\ members' = [members EXCEPT ![n] = @ \cup {id}]
    /\ UNCHANGED <<now, up, store, downUntil, req_vars, hist>>

\* A process does not remove itself.
leave(n, id) ==
    /\ [op |-> "leave", id |-> id] \in Changes /\ n \in up /\ id # n
    /\ members' = [members EXCEPT ![n] = @ \ {id}]
    /\ downUntil' = [downUntil EXCEPT ![n][id] = 0]
    /\ UNCHANGED <<now, up, store, req_vars, hist>>
----------------------------------------------------------------------------
(* What a node's store does for the key. *)

NeverStale(ent, at) == FALSE

Stale(ent, at) == ent.at > at

Live(n) == store[n] # Absent /\ (store[n].exp = 0 \/ now < store[n].exp)

\* store.Get on node n: an expired entry is removed on the way.
StoreGet(n) ==
    /\ store' = [store EXCEPT ![n] = IF Live(n) THEN @ ELSE Absent]
    /\ wiped' = (wiped \/ (store[n] # Absent /\ ~Live(n)))

\* store.Set on node n for a write of request r.
StoreSet(n, r) ==
    IF store[n] # Absent /\ Stale(store[n], body[r].at)
    THEN UNCHANGED store
    ELSE store' = [store EXCEPT ![n] =
                     [val |-> body[r].val, at |-> body[r].at,
                      exp |-> IF body[r].ttl > 0 THEN now + body[r].ttl * Ms ELSE 0]]

\* Eviction for another key, and the janitor's sweep.
Evict(n) ==
    /\ "evict" \in Faults
    /\ store[n] # Absent
    /\ store' = [store EXCEPT ![n] = Absent]
    /\ wiped' = TRUE
    /\ UNCHANGED <<now, up, members, downUntil, req_vars, lastErr, nameless, before, unheard>>

Sweep(n) ==
    /\ store[n] # Absent /\ ~Live(n)
    /\ StoreGet(n)
    /\ UNCHANGED <<now, up, members, downUntil, req_vars, lastErr, nameless, before, unheard>>
----------------------------------------------------------------------------
(* The breaker. *)

markDown(n, p) ==
    downUntil' = [downUntil EXCEPT ![n][p] = IF p = n THEN @ ELSE now + BreakFor]

isDown(n, p) == downUntil[n][p] # 0 /\ now < downUntil[n][p]

RpcFailed(n, p) == lastErr' = [lastErr EXCEPT ![n][p] = now] /\ UNCHANGED nameless

\* peerURL of n has none for p, which is not on the ring of n any more.
NoURL(n, p) == nameless' = [nameless EXCEPT ![n] = @ \cup {p}] /\ UNCHANGED lastErr

\* An RPC to p can end in an error: p does not run, or the RPC times out.
CanFail(p) == p \notin up \/ "rpc" \in Faults
----------------------------------------------------------------------------
(* A request arrives at node n. *)

\* The write goes to every owner at once.
Fanout(r, n) ==
    /\ pc[r] = "idle" /\ n \in up
    /\ pc' = [pc EXCEPT ![r] = "fanout"]
    /\ coord' = [coord EXCEPT ![r] = n]
    /\ owners' = [owners EXCEPT ![r] = RingOwners(n)]
    /\ LET To(x) == [o \in Nodes |-> IF o \in ToSet(RingOwners(n)) THEN x ELSE "none"]
       IN  /\ wire' = [wire EXCEPT ![r] = To("sent")]
           /\ verdict' = [verdict EXCEPT ![r] = To("wait")]
    /\ UNCHANGED <<now, up, members, store, downUntil, idx, reached, reply, code,
                   lastErr, nameless, wiped, before, unheard>>

handleSet(r, n, at, ttl) ==
    /\ Fanout(r, n)
    /\ body' = [body EXCEPT ![r] = [val |-> r, at |-> at, ttl |-> ttl]]

handleDelete(r, n) == Fanout(r, n) /\ UNCHANGED body

\* The SETs that all their owners have acked.
FullyAcked ==
    {s \in SetReqs : pc[s] = "done" /\ \A o \in OwnerSet(s) : verdict[s][o] = "ok"}

handleGet(r, n) ==
    /\ pc[r] = "idle" /\ n \in up
    /\ pc' = [pc EXCEPT ![r] = "walk"]
    /\ coord' = [coord EXCEPT ![r] = n]
    /\ owners' = [owners EXCEPT ![r] = RingOwners(n)]
    /\ idx' = [idx EXCEPT ![r] = 1]
    /\ before' = [before EXCEPT ![r] = FullyAcked]
    /\ UNCHANGED <<now, up, members, store, downUntil, body, wire, verdict, reached, reply, code,
                   lastErr, nameless, wiped, unheard>>
----------------------------------------------------------------------------
(* An owner serves a write: handleInternalKV, or writeOwner when the owner *)
(* is the coordinator itself.  A write that is lost on the way stays on    *)
(* the wire and is never served.                                           *)

ServeWrite(r, o) ==
    /\ wire[r][o] = "sent" /\ o \in up
    /\ wire' = [wire EXCEPT ![r][o] = "done"]
    /\ IF r \in DelReqs
       THEN /\ store' = [store EXCEPT ![o] = Absent]
            /\ wiped' = TRUE
       ELSE StoreSet(o, r) /\ UNCHANGED wiped
    /\ UNCHANGED <<now, up, members, downUntil, pc, coord, owners, body, verdict, idx, reached, reply, code,
                   lastErr, nameless, before, unheard>>

\* writeOwner finds no URL for a peer that has left since the owners were read.
WriteUnknown(r, o) ==
    /\ wire[r][o] = "sent" /\ o # coord[r] /\ coord[r] \in up /\ o \notin members[coord[r]]
    /\ wire' = [wire EXCEPT ![r][o] = "none"]
    /\ IF verdict[r][o] = "wait"
       THEN /\ verdict' = [verdict EXCEPT ![r][o] = "err"]
            /\ markDown(coord[r], o)
            /\ NoURL(coord[r], o)
       ELSE UNCHANGED <<verdict, downUntil, lastErr, nameless>>
    /\ UNCHANGED <<now, up, members, store, pc, coord, owners, body, idx, reached, reply, code,
                   wiped, before, unheard>>

(* fanout collects the results. *)

CollectAckUnserved(r, o) ==
    /\ pc[r] = "fanout" /\ verdict[r][o] = "wait"
    /\ verdict' = [verdict EXCEPT ![r][o] = "ok"]
    /\ UNCHANGED <<now, up, members, store, downUntil, pc, coord, owners, body, wire, idx, reached, reply, code, hist>>

CollectAck(r, o) ==
    /\ pc[r] = "fanout" /\ verdict[r][o] = "wait" /\ wire[r][o] = "done"
    /\ verdict' = [verdict EXCEPT ![r][o] = "ok"]
    /\ UNCHANGED <<now, up, members, store, downUntil, pc, coord, owners, body, wire, idx, reached, reply, code, hist>>

CollectErrNoTimeout(r, o) ==
    /\ pc[r] = "fanout" /\ verdict[r][o] = "wait" /\ o # coord[r] /\ o \notin up
    /\ verdict' = [verdict EXCEPT ![r][o] = "err"]
    /\ markDown(coord[r], o)
    /\ RpcFailed(coord[r], o)
    /\ UNCHANGED <<now, up, members, store, pc, coord, owners, body, wire, idx, reached, reply, code,
                   wiped, before, unheard>>

CollectErr(r, o) ==
    /\ pc[r] = "fanout" /\ verdict[r][o] = "wait" /\ o # coord[r] /\ CanFail(o)
    /\ verdict' = [verdict EXCEPT ![r][o] = "err"]
    /\ markDown(coord[r], o)
    /\ RpcFailed(coord[r], o)
    /\ UNCHANGED <<now, up, members, store, pc, coord, owners, body, wire, idx, reached, reply, code,
                   wiped, before, unheard>>

FanoutDone(r) ==
    /\ pc[r] = "fanout"
    /\ \A o \in OwnerSet(r) : verdict[r][o] # "wait"
    /\ pc' = [pc EXCEPT ![r] = "done"]
    /\ code' = [code EXCEPT ![r] =
                  IF \E o \in OwnerSet(r) : verdict[r][o] = "ok" THEN 200 ELSE 503]
    /\ UNCHANGED <<now, up, members, store, downUntil, coord, owners, body, wire, verdict, idx, reached, reply, hist>>
----------------------------------------------------------------------------
(* GET walks the owners, itself first if it is one. *)

preferLocal(os, n) == IF n \in ToSet(os) THEN Cons(n, RemoveFirst(os, n)) ELSE os

Target(r) == preferLocal(owners[r], coord[r])[idx[r]]

Walking(r) == pc[r] = "walk" /\ idx[r] <= Len(owners[r])

\* What a node says of a live entry: the rest of its TTL in whole
\* milliseconds, rounded down, and no field when it has none.
getPayload(ent) ==
    [val |-> ent.val, at |-> ent.at,
     ttl |-> IF ent.exp = 0 THEN -1 ELSE (ent.exp - now) \div Ms]

\* readOwner's reading of the answer of a peer.
FromPayload(g) ==
    [val |-> g.val, at |-> g.at, exp |-> IF g.ttl > 0 THEN now + g.ttl * Ms ELSE 0]

\* The ttl_ms of a repair.  The clock is read again for it, and may have
\* moved (slip) since the entry was read.
RepairTTLNoZeroCheck(ent, slip) == (ent.exp - now - slip) \div Ms

RepairTTL(ent, slip) == IF ent.exp = 0 THEN 0 ELSE (ent.exp - now - slip) \div Ms

RepairBodyRestamped(ent, slip) ==
    [val |-> ent.val, at |-> now, ttl |-> RepairTTL(ent, slip)]

RepairBody(ent, slip) ==
    [val |-> ent.val, at |-> ent.at, ttl |-> RepairTTL(ent, slip)]

readRepairNotSelf(r, ent, servedBy) ==
    \E slip \in {0, 1} :
        IF ent.exp # 0 /\ RepairTTL(ent, slip) <= 0
        THEN UNCHANGED <<body, wire>>
        ELSE /\ body' = [body EXCEPT ![r] = RepairBody(ent, slip)]
             /\ wire' = [wire EXCEPT ![r] =
                           [o \in Nodes |-> IF o \in OwnerSet(r) \ {coord[r]} THEN "sent" ELSE "none"]]

\* readRepair: every other owner is sent the entry, unless it is about to
\* expire.
readRepair(r, ent, servedBy) ==
    \E slip \in {0, 1} :
        IF ent.exp # 0 /\ RepairTTL(ent, slip) <= 0
        THEN UNCHANGED <<body, wire>>
        ELSE /\ body' = [body EXCEPT ![r] = RepairBody(ent, slip)]
             /\ wire' = [wire EXCEPT ![r] =
                           [o \in Nodes |-> IF o \in OwnerSet(r) \ {servedBy} THEN "sent" ELSE "none"]]

Hit(r, ent, servedBy) ==
    /\ readRepair(r, ent, servedBy)
    /\ reply' = [reply EXCEPT ![r] = getPayload(ent)]
    /\ reached' = [reached EXCEPT ![r] = TRUE]
    /\ code' = [code EXCEPT ![r] = 200]
    /\ pc' = [pc EXCEPT ![r] = "done"]
    /\ UNCHANGED idx

Miss(r) ==
    /\ reached' = [reached EXCEPT ![r] = TRUE]
    /\ idx' = [idx EXCEPT ![r] = @ + 1]
    /\ pc' = [pc EXCEPT ![r] = "walk"]
    /\ UNCHANGED <<body, wire, reply, code>>

WalkLocal(r) ==
    /\ Walking(r) /\ Target(r) = coord[r]
    /\ StoreGet(coord[r])
    /\ IF Live(coord[r]) THEN Hit(r, store[coord[r]], coord[r]) ELSE Miss(r)
    /\ UNCHANGED <<now, up, members, downUntil, coord, owners, verdict, lastErr, nameless, before, unheard>>

\* readOwner has no answer of the peer: it is marked down, and the walk goes on.
PassOver(r) ==
    /\ markDown(coord[r], Target(r))
    /\ idx' = [idx EXCEPT ![r] = @ + 1]
    /\ reply' = [reply EXCEPT ![r] = Absent]
    /\ pc' = [pc EXCEPT ![r] = "walk"]
    /\ unheard' = [unheard EXCEPT ![r] = @ \cup {Target(r)}]
    /\ UNCHANGED <<now, up, members, store, coord, owners, body, wire, verdict, reached, code,
                   wiped, before>>

\* "marked down" is an error like any other to handleGet: it marks the peer
\* down once more.
WalkSkip(r) ==
    /\ Walking(r) /\ Target(r) # coord[r]
    /\ isDown(coord[r], Target(r))
    /\ PassOver(r)
    /\ UNCHANGED <<lastErr, nameless>>

\* The peer has left the ring of this process since the walk began.
WalkUnknown(r) ==
    /\ Walking(r) /\ Target(r) # coord[r]
    /\ ~isDown(coord[r], Target(r)) /\ Target(r) \notin members[coord[r]]
    /\ PassOver(r)
    /\ NoURL(coord[r], Target(r))

WalkSend(r) ==
    /\ Walking(r) /\ Target(r) # coord[r]
    /\ ~isDown(coord[r], Target(r)) /\ Target(r) \in members[coord[r]]
    /\ downUntil' = [downUntil EXCEPT ![coord[r]][Target(r)] = 0]
    /\ pc' = [pc EXCEPT ![r] = "rpc"]
    /\ UNCHANGED <<now, up, members, store, coord, owners, body, wire, verdict, idx, reached, reply, code, hist>>

ServeRead(r) ==
    /\ pc[r] = "rpc" /\ Target(r) \in up
    /\ StoreGet(Target(r))
    /\ reply' = [reply EXCEPT ![r] =
                   IF Live(Target(r)) THEN getPayload(store[Target(r)]) ELSE Absent]
    /\ pc' = [pc EXCEPT ![r] = "replied"]
    /\ UNCHANGED <<now, up, members, downUntil, coord, owners, body, wire, verdict, idx, reached, code,
                   lastErr, nameless, before, unheard>>

RecvMarksMissesDown(r) ==
    /\ pc[r] = "replied"
    /\ IF reply[r] # Absent
       THEN Hit(r, FromPayload(reply[r]), Target(r)) /\ UNCHANGED downUntil
       ELSE Miss(r) /\ markDown(coord[r], Target(r))
    /\ UNCHANGED <<now, up, members, store, coord, owners, verdict, hist>>

Recv(r) ==
    /\ pc[r] = "replied"
    /\ IF reply[r] # Absent THEN Hit(r, FromPayload(reply[r]), Target(r)) ELSE Miss(r)
    /\ UNCHANGED <<now, up, members, store, downUntil, coord, owners, verdict, hist>>

ReadErr(r) ==
    /\ pc[r] \in {"rpc", "replied"} /\ CanFail(Target(r))
    /\ PassOver(r)
    /\ RpcFailed(coord[r], Target(r))

WalkEnd(r) ==
    /\ pc[r] = "walk" /\ idx[r] > Len(owners[r])
    /\ pc' = [pc EXCEPT ![r] = "done"]
    /\ code' = [code EXCEPT ![r] = IF reached[r] THEN 404 ELSE 503]
    /\ UNCHANGED <<now, up, members, store, downUntil, coord, owners, body, wire, verdict, idx, reached, reply, hist>>
----------------------------------------------------------------------------
(* Processes stop without warning and come back empty, with the members   *)
(* they were configured with.  What a handler knew dies with its process, *)
(* and so does the write it was about to make to its own store; what other *)
(* processes have sent, or are about to send, is still on the wire.       *)

Crash(n) ==
    /\ "crash" \in Faults
    /\ n \in up
    /\ up' = up \ {n}
    /\ store' = [store EXCEPT ![n] = Absent]
    /\ wiped' = (wiped \/ store[n] # Absent)
    /\ downUntil' = [downUntil EXCEPT ![n] = [p \in Nodes |-> 0]]
    /\ lastErr' = [lastErr EXCEPT ![n] = [p \in Nodes |-> 0]]
    /\ nameless' = [nameless EXCEPT ![n] = {}]
    /\ LET Dies(r) == coord[r] = n /\ pc[r] # "done"
       IN  /\ pc' = [r \in Reqs |-> IF Dies(r) THEN "dead" ELSE pc[r]]
           /\ verdict' = [r \in Reqs |->
                            IF Dies(r) THEN [o \in Nodes |-> "none"] ELSE verdict[r]]
           /\ idx' = [r \in Reqs |-> IF Dies(r) THEN 0 ELSE idx[r]]
           /\ reached' = [r \in Reqs |-> reached[r] /\ ~Dies(r)]
    /\ wire' = [r \in Reqs |->
                  IF coord[r] = n /\ wire[r][n] = "sent"
                  THEN [wire[r] EXCEPT ![n] = "none"] ELSE wire[r]]
    /\ UNCHANGED <<now, members, coord, owners, body, reply, code, before, unheard>>

Restart(n) ==
    /\ n \notin up
    /\ up' = up \cup {n}
    /\ members' = [members EXCEPT ![n] = Peers[n]]
    /\ UNCHANGED <<now, store, downUntil, req_vars, hist>>

TimePasses ==
    /\ now < MaxTime
    /\ now' = now + 1
    /\ UNCHANGED <<up, members, store, downUntil, req_vars, hist>>
----------------------------------------------------------------------------
Arrive ==
    \/ \E r \in SetReqs, n \in Nodes, at \in Stamps, ttl \in TTLs : handleSet(r, n, at, ttl)
    \/ \E r \in DelReqs, n \in Nodes : handleDelete(r, n)
    \/ \E r \in GetReqs, n \in Nodes : handleGet(r, n)

\* The steps of a handler that do not wait for anybody else.
Handler(r) ==
    \/ \E o \in OwnerSet(r) : \/ CollectAck(r, o) \/ CollectErr(r, o)
                              \/ o = coord[r] /\ ServeWrite(r, o)
    \/ FanoutDone(r)
    \/ WalkLocal(r) \/ WalkSkip(r) \/ WalkUnknown(r) \/ WalkSend(r)
    \/ Recv(r) \/ ReadErr(r) \/ WalkEnd(r)

\* The clients have had all their answers and ask nothing more.
Answered == (\A r \in Reqs : pc[r] \in {"done", "dead"}) /\ UNCHANGED vars

Next ==
    \/ Arrive
    \/ \E r \in Reqs : Handler(r) \/ ServeRead(r)
    \/ \E r \in Reqs, o \in Nodes : ServeWrite(r, o) \/ WriteUnknown(r, o)
    \/ \E n \in Nodes : Evict(n) \/ Sweep(n) \/ Crash(n) \/ Restart(n)
    \/ \E n, id \in Nodes : join(n, id) \/ leave(n, id)
    \/ TimePasses
    \/ Answered

Spec == Init /\ [][Next]_vars

\* A handler goroutine is scheduled, and http.Client's Timeout ends every
\* RPC that nobody answers.  Nothing is assumed of owners, of clients or of
\* the clock.
FairSpec == Spec /\ \A r \in Reqs : WF_vars(Handler(r))
----------------------------------------------------------------------------
(* Properties. *)

\* Last writer wins on every replica, whatever arrives late: while an owner
\* holds the key, the stamp it holds never goes back.  Retries, repairs from a
\* replica that is behind and writes that were given up on all end in
\* store.Set.
StampsNeverGoBack ==
    [][\A n \in Nodes : store[n] # Absent /\ store'[n] # Absent =>
           store'[n].at >= store[n].at]_vars

\* What a replica holds, what travels between nodes and what a client gets is
\* a value with the stamp that the client's SET gave it, however many repairs
\* it went through.
Provenance ==
    LET Genuine(x) == x.at = body[x.val].at /\ pc[x.val] # "idle"
    IN  /\ \A n \in Nodes : store[n] # Absent => Genuine(store[n])
        /\ \A r \in Reqs : body[r] # Absent => Genuine(body[r])
        /\ \A r \in Reqs : reply[r] # Absent => Genuine(reply[r])

\* A write that all its owners have acked is seen by every later GET, through
\* any coordinator and past any number of late older writes and repairs, as long
\* as no owner lost an entry.  A GET whose owners were all among those of the
\* write returns that value or a newer one; a GET whose coordinator had another
\* ring misses only if it heard from none of the owners that it shares with the
\* write.
FreshReads ==
    \A g \in GetReqs, s \in SetReqs : pc[g] = "done" /\ ~wiped /\ s \in before[g] =>
        /\ code[g] = 200 /\ OwnerSet(g) \subseteq OwnerSet(s) => reply[g].at >= body[s].at
        /\ code[g] = 404 => OwnerSet(g) \cap OwnerSet(s) \subseteq unheard[g]

\* While one node joins or leaves, told to one process after the other, no key
\* that all its owners acked goes missing: a GET that heard from every owner it
\* asked finds it, whichever ring its coordinator and the writer's had.  With
\* fewer than two replicas, or two nodes on the move, the two owner sets can
\* be disjoint.
JoinHidesNothing ==
    /\ \A n \in Nodes : Replicas(n) >= 2
    /\ \E id \in Nodes : /\ \A n, m \in Nodes : Peers[n] \ {id} = Peers[m] \ {id}
                         /\ \A c \in Changes : c.id = id
    => \A g \in GetReqs :
           code[g] = 404 /\ unheard[g] = {} /\ ~wiped => before[g] = {}

\* A node marks a peer down only for a reason of its own since it started: an
\* RPC of its own to that peer has failed, or the peer was gone from its ring
\* while a request of its own still had it among the owners.
SkippedOnlyAfterError ==
    \A n, p \in Nodes : downUntil[n][p] # 0 => lastErr[n][p] # 0 \/ p \in nameless[n]

\* A GET that found the key brings every owner up to the value it served:
\* once its repairs have been served, no owner is without the key or holds an
\* older value, whatever else was written meanwhile.  An owner that holds a
\* newer value keeps it, and the owner that served the GET does not learn of it.
RepairReaches ==
    \A g \in GetReqs :
        /\ code[g] = 200 /\ ~wiped
        /\ Cardinality({o \in OwnerSet(g) : wire[g][o] = "done"}) = Len(owners[g]) - 1
        => \A o \in OwnerSet(g) : store[o] # Absent /\ store[o].at >= reply[g].at

\* Every request is answered, unless its coordinator dies: fanout hears of
\* every owner, and the walk of a GET ends.
RequestCompletes ==
    \A r \in Reqs : pc[r] # "idle" ~> pc[r] \in {"done", "dead"}

\* Without its stored deadline, a copy is a value and its stamp.
Stamped(x) == IF x = Absent THEN Absent ELSE [val |-> x.val, at |-> x.at]

Phase(r) ==
    CASE pc[r] = "idle" -> "idle"
      [] pc[r] \in {"done", "dead"} -> "closed"
      [] OTHER -> "open"

CopiesSpec == INSTANCE Copies WITH
    Writes <- SetReqs,
    Reads <- GetReqs,
    None <- Absent,
    issued <- {[val |-> s, at |-> body[s].at] : s \in {q \in SetReqs : pc[q] # "idle"}},
    held <- [n \in Nodes |-> Stamped(store[n])],
    phase <- [r \in GetReqs |-> Phase(r)],
    answer <- [r \in GetReqs |-> Stamped(reply[r])]

\* The data plane implements module Copies.  Through fan-outs given up on and
\* served late, repairs, deletes, expiry and changing rings, an owner only ever
\* takes up what a client wrote, never for something newer that it still holds,
\* and a GET returns what one owner held while the GET was under way.
RefinesCopies == CopiesSpec!Spec

(* What the documentation says. *)

\* "2s fail-open breaker after a peer error": a peer is skipped for at most
\* BreakFor after the last RPC that failed.
SkippedOnlyBriefly ==
    \A n, p \in Nodes : downUntil[n][p] <= lastErr[n][p] + BreakFor

\* "ttl_ms: 0 or omitted means no expiry": a value that was SET with a TTL
\* has a deadline wherever it is stored.
TTLSurvives ==
    \A n \in Nodes : store[n] # Absent /\ body[store[n].val].ttl > 0 => store[n].exp # 0
============================================================================
