----------------------------- MODULE Membership -----------------------------
(***************************************************************************)
(* Membership as one process of internal/node/node.go sees it: the ring,   *)
(* the map from peers to URLs, and the administrative calls that change    *)
(* both.  join and leave update the map under the node's mutex, let go of  *)
(* it, and then update the ring under the ring's own lock, so calls that   *)
(* run at the same time interleave between the two halves.                 *)
(*                                                                         *)
(* A request of the data plane reads the two in the opposite order: the    *)
(* owners of its key from the ring first, and the URL of each owner when   *)
(* its turn comes.  What it then does with the owner is module Cluster;    *)
(* here it only matters that every error, an unknown peer included, makes  *)
(* it mark the owner down.                                                 *)
(***************************************************************************)
EXTENDS Ring

CONSTANTS
    Self,           \* cfg.ID
    Peers,          \* the ids in cfg.Peers
    ReplicasFlag,   \* cfg.Replicas as it was asked for
    Calls           \* PUT and DELETE requests to /admin/members

ASSUME PeersAssumption == Peers \subseteq Ids /\ Self \in Peers /\ IsFiniteSet(Ids)
ASSUME ReplicasAssumption == ReplicasFlag \in Nat \ {0}

\* New caps cfg.Replicas once, at the number of peers it is started with.
Replicas == Min({ReplicasFlag, Cardinality(Peers)})

VARIABLES
    peers,      \* ids that have a URL
    downUntil,  \* ids that have an entry in the breaker's map
    call,       \* call[c]: what an administrative call is doing
    todo,       \* owners that the data-plane request has yet to contact
    unknown,    \* owners for which it failed with "unknown peer"
    (* History variables, read by no action. *)
    raced,      \* ids of which two administrative calls overlapped
    touched     \* ids of which one has overlapped the data-plane request

memVars == <<peers, downUntil, call, todo, unknown, raced, touched>>
vars == <<ringVars, memVars>>

Idle == [op |-> "none", id |-> Self, at |-> "idle"]

Call == [op: {"none", "join", "leave"}, id: Ids, at: {"idle", "ring", "done"}]

\* Ids whose second half is still to come.
InFlight == {call[c].id : c \in {d \in Calls : call[d].at = "ring"}}

Init ==
    /\ hash \in [Ids -> [1 .. vnodesPerNode -> Hashes]]
    /\ nodes = Peers
    /\ ring = rebuildLocked(Peers)
    /\ peers = Peers
    /\ downUntil = {}
    /\ call = [c \in Calls |-> Idle]
    /\ todo = <<>>
    /\ unknown = {}
    /\ raced = {}
    /\ touched = {}
----------------------------------------------------------------------------
(* The two halves of join and leave. *)

Begin(c, op, id) ==
    /\ call[c].at = "idle"
    /\ call' = [call EXCEPT ![c] = [op |-> op, id |-> id, at |-> "ring"]]
    /\ raced' = raced \cup ({id} \cap InFlight)
    /\ touched' = touched \cup {id}
    /\ UNCHANGED <<ringVars, todo, unknown>>

joinPeers(c, id) ==
    /\ Begin(c, "join", id)
    /\ peers' = peers \cup {id}
    /\ UNCHANGED downUntil

\* A process does not remove itself.
leavePeers(c, id) ==
    /\ id # Self
    /\ Begin(c, "leave", id)
    /\ peers' = peers \ {id}
    /\ downUntil' = downUntil \ {id}

Finish(c, op) ==
    /\ call[c].at = "ring" /\ call[c].op = op
    /\ call' = [call EXCEPT ![c].at = "done"]
    /\ UNCHANGED <<peers, downUntil, todo, unknown, raced, touched>>

joinRing(c) == Finish(c, "join") /\ AddNode(call[c].id)

leaveRingForgotten(c) == Finish(c, "leave") /\ UNCHANGED ringVars

leaveRing(c) == Finish(c, "leave") /\ RemoveNode(call[c].id)
----------------------------------------------------------------------------
(* A request of the data plane. *)

\* owners := n.ring.Owners(key, n.cfg.Replicas)
Route(h) ==
    /\ todo = <<>>
    /\ todo' = Owners(h, Replicas)
    /\ unknown' = {}
    /\ touched' = InFlight
    /\ UNCHANGED <<ringVars, peers, downUntil, call, raced>>

\* markDown without its check for this process itself.
ContactMarksSelf ==
    /\ todo # <<>>
    /\ todo' = Tail(todo)
    /\ \E err \in SUBSET {Head(todo)} : downUntil' = downUntil \cup err
    /\ UNCHANGED <<ringVars, peers, call, unknown, raced, touched>>

\* peerURL of the next owner; this process needs none for itself.  The RPC to
\* a known owner may fail too.
Contact ==
    /\ todo # <<>>
    /\ todo' = Tail(todo)
    /\ LET o == Head(todo)
           miss == {o} \ (peers \cup {Self})
       IN  /\ unknown' = unknown \cup miss
           /\ \E err \in SUBSET ({o} \ {Self}) :
                 miss \subseteq err /\ downUntil' = downUntil \cup err
    /\ UNCHANGED <<ringVars, peers, call, raced, touched>>

\* isDown drops an entry that has run out.
BreakerCloses(id) ==
    /\ id \in downUntil
    /\ downUntil' = downUntil \ {id}
    /\ UNCHANGED <<ringVars, peers, call, todo, unknown, raced, touched>>
----------------------------------------------------------------------------
Next ==
    \/ \E c \in Calls, id \in Ids : joinPeers(c, id) \/ leavePeers(c, id)
    \/ \E c \in Calls : joinRing(c) \/ leaveRing(c)
    \/ \E h \in Hashes : Route(h)
    \/ Contact
    \/ \E id \in Ids : BreakerCloses(id)

Spec == Init /\ [][Next]_vars
----------------------------------------------------------------------------
(* Properties. *)

MemTypeOK ==
    /\ RingTypeOK
    /\ peers \in SUBSET Ids
    /\ downUntil \in SUBSET (Ids \ {Self})
    /\ call \in [Calls -> Call]
    /\ todo \in Seq(Ids)
    /\ unknown \in SUBSET Ids
    /\ raced \in SUBSET Ids
    /\ touched \in SUBSET Ids

\* An id is on the ring exactly if it has a URL, once no call is changing it,
\* unless two calls about this very id have overlapped; calls about other ids
\* do no harm.  The process itself is always in both.
MembersAgree ==
    /\ \A id \in Ids \ (raced \cup InFlight) : id \in nodes <=> id \in peers
    /\ Self \in nodes \cap peers

\* "unknown peer" is never the fault of a membership change that was over
\* when the request looked up its owners, nor of changes to other ids: the
\* peer in question was being changed while the request ran, or two changes
\* of it once overlapped.
UnknownOnlyIfRaced == unknown \subseteq raced \cup touched
============================================================================
