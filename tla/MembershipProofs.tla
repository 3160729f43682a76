-------------------------- MODULE MembershipProofs --------------------------
(***************************************************************************)
(* Proofs about membership administration, for every set of identifiers    *)
(* and peers and every number of concurrent calls.                         *)
(***************************************************************************)
EXTENDS Membership, RingProofs

(* The inductive invariant. *)

\* A call whose second half is still to come.
Halfway(c) == call[c].at = "ring"

\* What the first half has left for the second: unless another call about the
\* same id has interfered, the map is as the call made it and no other call is
\* about to change the ring for that id.
HalfDone ==
    \A c \in Calls : Halfway(c) =>
        /\ call[c].op \in {"join", "leave"}
        /\ call[c].op = "leave" => call[c].id # Self
        /\ call[c].id \notin raced =>
              /\ call[c].id \in peers <=> call[c].op = "join"
              /\ \A d \in Calls : Halfway(d) /\ call[d].id = call[c].id => d = c

\* An owner that has yet to be contacted has a URL, or was changed meanwhile.
Reachable == \A i \in 1 .. Len(todo) : todo[i] \in peers \cup raced \cup touched

MemInv == RingInv /\ MemTypeOK /\ MembersAgree /\ HalfDone /\ Reachable /\ UnknownOnlyIfRaced

\* The ids of the calls that are halfway.
LEMMA InFlightIs ==
    /\ \A x : x \in InFlight <=> \E c \in Calls : Halfway(c) /\ call[c].id = x
    /\ \A x : x \in InFlight' <=> \E c \in Calls : Halfway(c)' /\ call'[c].id = x
BY DEF InFlight, Halfway

\* The number of replicas.
LEMMA ReplicasType == Replicas \in Nat
<1>1. Cardinality(Peers) \in Nat
  BY PeersAssumption, FS_Subset, FS_CardinalityType
<1> QED
  BY <1>1, ReplicasAssumption, MinOfTwo DEF Replicas

\* The process starts with its peers in both places.
LEMMA MemInvInit == Init => MemInv
<1> SUFFICES ASSUME Init PROVE MemInv
  OBVIOUS
<1>1. RingInv
  <2>1. HashOK /\ nodes = Peers /\ Peers \in SUBSET Ids /\ IsFiniteSet(Peers)
    BY PeersAssumption, FS_Subset DEF Init, HashOK
  <2>2. ring = rebuildLocked(Peers)
    BY DEF Init
  <2> QED
    BY <2>1, <2>2, RebuildProperties DEF RingInv
<1>2. Idle \in Call /\ Idle.at = "idle"
  BY PeersAssumption DEF Idle, Call
<1>3. \A c \in Calls : ~Halfway(c)
  BY <1>2 DEF Init, Halfway
<1>4. MemTypeOK
  BY <1>1, <1>2, RingTyped, PeersAssumption DEF Init, MemTypeOK
<1>5. MembersAgree
  BY PeersAssumption DEF Init, MembersAgree
<1>6. HalfDone
  BY <1>3 DEF HalfDone
<1>7. Reachable /\ UnknownOnlyIfRaced
  BY DEF Init, Reachable, UnknownOnlyIfRaced
<1> QED
  BY <1>1, <1>4, <1>5, <1>6, <1>7 DEF MemInv
----------------------------------------------------------------------------
(* The first half of a call. *)

\* The map after it.
NewPeers(op, id) == IF op = "join" THEN peers \cup {id} ELSE peers \ {id}

\* The first half keeps the invariant.
LEMMA BeginKeeps ==
    ASSUME MemInv, NEW c \in Calls, NEW id \in Ids, NEW op \in {"join", "leave"},
           op = "leave" => id # Self,
           Begin(c, op, id), peers' = NewPeers(op, id),
           downUntil' \in SUBSET downUntil
    PROVE  MemInv'
<1>0. /\ call \in [Calls -> Call] /\ peers \in SUBSET Ids /\ call[c].at = "idle"
      /\ raced \in SUBSET Ids /\ touched \in SUBSET Ids /\ todo \in Seq(Ids)
  BY DEF MemInv, MemTypeOK, Begin
<1>1. /\ call' = [call EXCEPT ![c] = [op |-> op, id |-> id, at |-> "ring"]]
      /\ raced' = raced \cup ({id} \cap InFlight)
      /\ touched' = touched \cup {id}
      /\ UNCHANGED ringVars /\ todo' = todo /\ unknown' = unknown
  BY DEF Begin
<1>2. /\ call'[c] = [op |-> op, id |-> id, at |-> "ring"]
      /\ \A d \in Calls : d # c => call'[d] = call[d]
  BY <1>0, <1>1
<1>3. Halfway(c)' /\ ~Halfway(c) /\ \A d \in Calls : d # c => (Halfway(d)' <=> Halfway(d))
  BY <1>0, <1>2 DEF Halfway
<1>4. call'[c].op = op /\ call'[c].id = id
  BY <1>2
<1>5. RingInv' /\ nodes' = nodes
  BY <1>1, RingSameKeeps DEF MemInv, ringVars
<1>6. \A x : x \in InFlight => x \in InFlight'
  BY <1>2, <1>3, InFlightIs
<1>7. id \in InFlight'
  BY <1>3, <1>4, InFlightIs
<1>8. peers' \in SUBSET Ids /\ \A x : x # id => (x \in peers' <=> x \in peers)
  BY <1>0 DEF NewPeers
<1>9. id \in peers' <=> op = "join"
  BY DEF NewPeers
<1>10. MemTypeOK'
  <2>1. call' \in [Calls -> Call]
    <3>1. [op |-> op, id |-> id, at |-> "ring"] \in Call
      BY DEF Call
    <3> QED
      BY <1>0, <1>1, <3>1
  <2>2. RingTypeOK'
    BY <1>1 DEF MemInv, MemTypeOK, RingTypeOK, ringVars
  <2>3. raced' \in SUBSET Ids /\ touched' \in SUBSET Ids
    BY <1>0, <1>1
  <2>4. downUntil' \in SUBSET (Ids \ {Self})
    BY DEF MemInv, MemTypeOK
  <2> QED
    BY <1>1, <1>8, <2>1, <2>2, <2>3, <2>4 DEF MemInv, MemTypeOK
<1>11. MembersAgree'
  <2>1. ASSUME NEW x \in Ids \ (raced' \cup InFlight') PROVE x \in nodes' <=> x \in peers'
    <3>1. x # id /\ x \in Ids \ (raced \cup InFlight)
      BY <1>1, <1>6, <1>7
    <3>2. x \in nodes <=> x \in peers
      BY <3>1 DEF MemInv, MembersAgree
    <3> QED
      BY <1>5, <1>8, <3>1, <3>2
  <2>2. Self \in nodes'
    BY <1>5 DEF MemInv, MembersAgree
  <2>3. Self \in peers'
    BY <1>8, <1>9 DEF MemInv, MembersAgree
  <2> QED
    BY <2>1, <2>2, <2>3 DEF MembersAgree
<1>12. HalfDone'
  <2> SUFFICES ASSUME NEW d \in Calls, Halfway(d)'
               PROVE  /\ call'[d].op \in {"join", "leave"}
                      /\ call'[d].op = "leave" => call'[d].id # Self
                      /\ call'[d].id \notin raced' =>
                            /\ call'[d].id \in peers' <=> call'[d].op = "join"
                            /\ \A e \in Calls : Halfway(e)' /\ call'[e].id = call'[d].id => e = d
    BY DEF HalfDone
  <2>1. CASE d = c
    <3>1. ASSUME id \notin raced', NEW e \in Calls, Halfway(e)', call'[e].id = id
          PROVE  e = c
      <4> SUFFICES ASSUME e # c PROVE FALSE
        OBVIOUS
      <4>1. Halfway(e) /\ call[e].id = id
        BY <1>2, <1>3, <3>1
      <4>2. id \in InFlight
        BY <4>1, InFlightIs
      <4> QED
        BY <1>1, <3>1, <4>2
    <3> QED
      BY <1>4, <1>9, <2>1, <3>1
  <2>2. CASE d # c
    <3>1. Halfway(d) /\ call'[d] = call[d]
      BY <1>2, <1>3, <2>2
    <3>2. call[d].op \in {"join", "leave"} /\ (call[d].op = "leave" => call[d].id # Self)
      BY <3>1 DEF MemInv, HalfDone
    <3>3. ASSUME call[d].id \notin raced'
          PROVE  /\ call[d].id \in peers' <=> call[d].op = "join"
                 /\ \A e \in Calls : Halfway(e)' /\ call'[e].id = call[d].id => e = d
      <4>1. call[d].id \in InFlight
        BY <3>1, InFlightIs
      <4>2. call[d].id # id /\ call[d].id \notin raced
        BY <1>1, <3>3, <4>1
      <4>3. /\ call[d].id \in peers <=> call[d].op = "join"
            /\ \A e \in Calls : Halfway(e) /\ call[e].id = call[d].id => e = d
        BY <3>1, <4>2 DEF MemInv, HalfDone
      <4>4. ASSUME NEW e \in Calls, Halfway(e)', call'[e].id = call[d].id PROVE e = d
        <5>1. e # c
          BY <1>4, <4>2, <4>4
        <5> QED
          BY <1>2, <1>3, <4>3, <4>4, <5>1
      <4> QED
        BY <1>8, <4>2, <4>3, <4>4
    <3> QED
      BY <3>1, <3>2, <3>3
  <2> QED
    BY <2>1, <2>2
<1>13. Reachable'
  <2>1. ASSUME NEW i \in 1 .. Len(todo) PROVE todo[i] \in peers' \cup raced' \cup touched'
    <3>1. todo[i] \in peers \cup raced \cup touched
      BY DEF MemInv, Reachable
    <3> QED
      BY <1>1, <1>8, <3>1
  <2> QED
    BY <1>1, <2>1 DEF Reachable
<1>14. UnknownOnlyIfRaced'
  BY <1>1 DEF MemInv, UnknownOnlyIfRaced
<1> QED
  BY <1>5, <1>10, <1>11, <1>12, <1>13, <1>14 DEF MemInv
----------------------------------------------------------------------------
(* The second half of a call. *)

\* The second half keeps the invariant: the ring changes for the id of the
\* call, the way the map did.
LEMMA FinishKeeps ==
    ASSUME MemInv, NEW c \in Calls, NEW op \in {"join", "leave"}, Finish(c, op), RingInv',
           \A x : x # call[c].id => (x \in nodes' <=> x \in nodes),
           call[c].id \in nodes' <=> op = "join"
    PROVE  MemInv'
<1> DEFINE id == call[c].id
<1>0. /\ call \in [Calls -> Call] /\ Halfway(c) /\ call[c].op = op /\ call[c] \in Call /\ id \in Ids
  BY DEF MemInv, MemTypeOK, Finish, Halfway, Call
<1>1. /\ call' = [call EXCEPT ![c].at = "done"]
      /\ peers' = peers /\ downUntil' = downUntil /\ todo' = todo /\ unknown' = unknown
      /\ raced' = raced /\ touched' = touched
  BY DEF Finish
<1>2. /\ call'[c] = [call[c] EXCEPT !.at = "done"]
      /\ \A d \in Calls : d # c => call'[d] = call[d]
  BY <1>0, <1>1
<1>3. call'[c].at = "done" /\ call'[c] \in Call
  BY <1>0, <1>2 DEF Call
<1>4. ~Halfway(c)' /\ \A d \in Calls : d # c => (Halfway(d)' <=> Halfway(d))
  BY <1>2, <1>3 DEF Halfway
<1>5. \A x : x \in InFlight /\ x # id => x \in InFlight'
  BY <1>2, <1>4, InFlightIs
<1>6. /\ op = "leave" => id # Self
      /\ id \notin raced => (id \in peers <=> op = "join")
  BY <1>0 DEF MemInv, HalfDone
<1>7. MemTypeOK'
  <2>1. call' \in [Calls -> Call]
    BY <1>0, <1>1, <1>2, <1>3
  <2>2. RingTypeOK'
    BY DEF RingInv, RingTypeOK, Placed, Numbered, HashOK
  <2> QED
    BY <1>1, <2>1, <2>2 DEF MemInv, MemTypeOK
<1>8. MembersAgree'
  <2>1. ASSUME NEW x \in Ids \ (raced' \cup InFlight') PROVE x \in nodes' <=> x \in peers'
    <3>1. CASE x = id
      <4>1. id \notin raced
        BY <1>1, <2>1, <3>1
      <4> QED
        BY <1>1, <1>6, <3>1, <4>1
    <3>2. CASE x # id
      <4>1. x \in Ids \ (raced \cup InFlight)
        BY <1>1, <1>5, <2>1, <3>2
      <4>2. x \in nodes <=> x \in peers
        BY <4>1 DEF MemInv, MembersAgree
      <4> QED
        BY <1>1, <3>2, <4>2
    <3> QED
      BY <3>1, <3>2
  <2>2. Self \in nodes'
    <3>1. Self \in nodes
      BY DEF MemInv, MembersAgree
    <3>2. CASE id = Self
      BY <1>6, <3>2
    <3>3. CASE id # Self
      BY <3>1, <3>3
    <3> QED
      BY <3>2, <3>3
  <2>3. Self \in peers'
    BY <1>1 DEF MemInv, MembersAgree
  <2> QED
    BY <2>1, <2>2, <2>3 DEF MembersAgree
<1>9. HalfDone'
  <2> SUFFICES ASSUME NEW d \in Calls, Halfway(d)'
               PROVE  /\ call'[d].op \in {"join", "leave"}
                      /\ call'[d].op = "leave" => call'[d].id # Self
                      /\ call'[d].id \notin raced' =>
                            /\ call'[d].id \in peers' <=> call'[d].op = "join"
                            /\ \A e \in Calls : Halfway(e)' /\ call'[e].id = call'[d].id => e = d
    BY DEF HalfDone
  <2>1. d # c /\ Halfway(d) /\ call'[d] = call[d]
    BY <1>2, <1>4
  <2>2. /\ call[d].op \in {"join", "leave"}
        /\ call[d].op = "leave" => call[d].id # Self
        /\ call[d].id \notin raced =>
              /\ call[d].id \in peers <=> call[d].op = "join"
              /\ \A e \in Calls : Halfway(e) /\ call[e].id = call[d].id => e = d
    BY <2>1 DEF MemInv, HalfDone
  <2>3. ASSUME call[d].id \notin raced, NEW e \in Calls, Halfway(e)', call'[e].id = call[d].id
        PROVE  e = d
    <3>1. Halfway(e) /\ call'[e] = call[e]
      BY <1>2, <1>4, <2>3
    <3> QED
      BY <2>2, <2>3, <3>1
  <2> QED
    BY <1>1, <2>1, <2>2, <2>3
<1>10. Reachable' /\ UnknownOnlyIfRaced'
  BY <1>1 DEF MemInv, Reachable, UnknownOnlyIfRaced
<1> QED
  BY <1>7, <1>8, <1>9, <1>10 DEF MemInv
----------------------------------------------------------------------------
(* The data plane. *)

\* What the steps of the data plane leave alone.
LEMMA CallsKeep ==
    ASSUME MemInv, UNCHANGED <<ringVars, peers, call, raced>>
    PROVE  RingInv' /\ RingTypeOK' /\ MembersAgree' /\ HalfDone'
<1>1. RingInv' /\ nodes' = nodes
  BY RingSameKeeps DEF MemInv, ringVars
<1>2. RingTypeOK'
  BY DEF MemInv, MemTypeOK, RingTypeOK, ringVars
<1>3. \A c : Halfway(c)' <=> Halfway(c)
  BY DEF Halfway
<1>4. InFlight' = InFlight
  BY DEF InFlight
<1>5. MembersAgree'
  BY <1>1, <1>4 DEF MemInv, MembersAgree
<1>6. HalfDone'
  BY <1>3 DEF MemInv, HalfDone
<1> QED
  BY <1>1, <1>2, <1>5, <1>6

\* The owners are looked up.
LEMMA RouteKeeps ==
    ASSUME MemInv, NEW h \in Hashes, Route(h)
    PROVE  MemInv'
<1>1. /\ UNCHANGED <<ringVars, peers, call, raced>> /\ downUntil' = downUntil
      /\ todo' = Owners(h, Replicas) /\ unknown' = {} /\ touched' = InFlight
  BY DEF Route
<1>2. RingInv' /\ RingTypeOK' /\ MembersAgree' /\ HalfDone'
  BY <1>1, CallsKeep
<1>3. nodes \in SUBSET Ids /\ todo' \in Seq(nodes)
  <2>1. RingInv /\ nodes \in SUBSET Ids
    BY DEF MemInv, RingInv
  <2> QED
    BY <1>1, <2>1, ReplicasType, OwnersTyped
<1>4. InFlight \in SUBSET Ids
  <2>1. ASSUME NEW x \in InFlight PROVE x \in Ids
    <3>1. PICK c \in Calls : call[c].id = x
      BY InFlightIs
    <3>2. call[c] \in Call
      BY DEF MemInv, MemTypeOK
    <3> QED
      BY <3>1, <3>2 DEF Call
  <2> QED
    BY <2>1
<1>5. ASSUME NEW i \in 1 .. Len(todo') PROVE todo'[i] \in peers \cup raced \cup InFlight /\ todo'[i] \in Ids
  <2>1. todo'[i] \in nodes
    BY <1>3, ElementOfSeq
  <2> QED
    BY <1>3, <2>1 DEF MemInv, MembersAgree
<1>6. todo' \in Seq(Ids)
  BY <1>3
<1>7. Reachable' /\ UnknownOnlyIfRaced'
  BY <1>1, <1>5 DEF Reachable, UnknownOnlyIfRaced
<1>8. MemTypeOK'
  BY <1>1, <1>2, <1>4, <1>6 DEF MemInv, MemTypeOK
<1> QED
  BY <1>2, <1>7, <1>8 DEF MemInv

\* The next owner is contacted.
LEMMA ContactKeeps ==
    ASSUME MemInv, Contact
    PROVE  MemInv'
<1> DEFINE o == Head(todo)
           miss == {o} \ (peers \cup {Self})
<1>1. /\ UNCHANGED <<ringVars, peers, call, raced>> /\ touched' = touched
      /\ todo # <<>> /\ todo' = Tail(todo) /\ unknown' = unknown \cup miss
  BY DEF Contact
<1>2. PICK err \in SUBSET ({o} \ {Self}) : downUntil' = downUntil \cup err
  BY DEF Contact
<1>3. RingInv' /\ RingTypeOK' /\ MembersAgree' /\ HalfDone'
  BY <1>1, CallsKeep
<1>4. /\ o = todo[1] /\ todo' \in Seq(Ids) /\ o \in Ids /\ 1 \in 1 .. Len(todo)
      /\ Len(todo') = Len(todo) - 1 /\ Len(todo) \in Nat
      /\ \A i \in 1 .. Len(todo) - 1 : todo'[i] = todo[i + 1]
  <2>1. todo \in Seq(Ids) /\ todo # <<>> /\ todo' = Tail(todo)
    BY <1>1 DEF MemInv, MemTypeOK
  <2>2. Len(todo) \in Nat /\ Len(todo) # 0
    BY <2>1, LenProperties, EmptySeq
  <2> QED
    BY <2>1, <2>2, HeadTailProperties, ElementOfSeq
<1>5. o \in peers \cup raced \cup touched
  BY <1>4 DEF MemInv, Reachable
<1> HIDE DEF o
<1>6. UnknownOnlyIfRaced'
  BY <1>1, <1>5 DEF MemInv, UnknownOnlyIfRaced
<1>7. Reachable'
  <2>1. ASSUME NEW i \in 1 .. Len(todo') PROVE todo'[i] \in peers \cup raced \cup touched
    <3>1. i + 1 \in 1 .. Len(todo) /\ todo'[i] = todo[i + 1]
      BY <1>4
    <3> QED
      BY <3>1 DEF MemInv, Reachable
  <2> QED
    BY <1>1, <2>1 DEF Reachable
<1>8. MemTypeOK'
  <2>1. downUntil' \in SUBSET (Ids \ {Self})
    BY <1>2, <1>4 DEF MemInv, MemTypeOK
  <2>2. unknown' \in SUBSET Ids
    BY <1>1, <1>4 DEF MemInv, MemTypeOK
  <2> QED
    BY <1>1, <1>3, <1>4, <2>1, <2>2 DEF MemInv, MemTypeOK
<1> QED
  BY <1>3, <1>6, <1>7, <1>8 DEF MemInv

\* Nothing happens, except that the breaker may forget.
LEMMA BreakerKeeps ==
    ASSUME MemInv, UNCHANGED <<ringVars, peers, call, todo, unknown, raced, touched>>,
           downUntil' \in SUBSET downUntil
    PROVE  MemInv'
<1>1. RingInv' /\ RingTypeOK' /\ MembersAgree' /\ HalfDone'
  BY CallsKeep
<1>2. Reachable' /\ UnknownOnlyIfRaced'
  BY DEF MemInv, Reachable, UnknownOnlyIfRaced
<1>3. MemTypeOK'
  BY <1>1 DEF MemInv, MemTypeOK
<1> QED
  BY <1>1, <1>2, <1>3 DEF MemInv
----------------------------------------------------------------------------
\* Every step keeps the invariant.
LEMMA MemInvStep == MemInv /\ [Next]_vars => MemInv'
<1> SUFFICES ASSUME MemInv, [Next]_vars PROVE MemInv'
  OBVIOUS
<1>0. RingInv /\ call \in [Calls -> Call]
  BY DEF MemInv, MemTypeOK
<1>1. ASSUME NEW c \in Calls, NEW id \in Ids, joinPeers(c, id) PROVE MemInv'
  <2>1. /\ Begin(c, "join", id) /\ peers' = NewPeers("join", id) /\ downUntil' \in SUBSET downUntil
    BY <1>1 DEF joinPeers, NewPeers
  <2> QED
    BY <2>1, BeginKeeps
<1>2. ASSUME NEW c \in Calls, NEW id \in Ids, leavePeers(c, id) PROVE MemInv'
  <2>1. /\ Begin(c, "leave", id) /\ peers' = NewPeers("leave", id) /\ downUntil' \in SUBSET downUntil
        /\ id # Self
    BY <1>2 DEF leavePeers, NewPeers
  <2> QED
    BY <2>1, BeginKeeps
<1>3. ASSUME NEW c \in Calls, joinRing(c) PROVE MemInv'
  <2>1. call[c].id \in Ids /\ Finish(c, "join") /\ AddNode(call[c].id)
    BY <1>0, <1>3 DEF joinRing, Call
  <2>2. RingInv'
    BY <1>0, <2>1, AddNodeKeeps
  <2>3. /\ \A x : x # call[c].id => (x \in nodes' <=> x \in nodes)
        /\ call[c].id \in nodes'
    BY <2>1 DEF AddNode
  <2> QED
    BY <2>1, <2>2, <2>3, FinishKeeps
<1>4. ASSUME NEW c \in Calls, leaveRing(c) PROVE MemInv'
  <2>1. call[c].id \in Ids /\ Finish(c, "leave") /\ RemoveNode(call[c].id)
    BY <1>0, <1>4 DEF leaveRing, Call
  <2>2. RingInv'
    BY <1>0, <2>1, RemoveNodeKeeps
  <2>3. /\ \A x : x # call[c].id => (x \in nodes' <=> x \in nodes)
        /\ call[c].id \notin nodes'
    BY <2>1 DEF RemoveNode
  <2> QED
    BY <2>1, <2>2, <2>3, FinishKeeps
<1>5. ASSUME NEW h \in Hashes, Route(h) PROVE MemInv'
  BY <1>5, RouteKeeps
<1>6. CASE Contact
  BY <1>6, ContactKeeps
<1>7. ASSUME NEW id \in Ids, BreakerCloses(id) PROVE MemInv'
  BY <1>7, BreakerKeeps DEF BreakerCloses
<1>8. CASE UNCHANGED vars
  BY <1>8, BreakerKeeps DEF vars, memVars
<1> QED
  BY <1>1, <1>2, <1>3, <1>4, <1>5, <1>6, <1>7, <1>8 DEF Next

\* The invariant holds in every reachable state.
LEMMA MemInvAlways == Spec => []MemInv
BY MemInvInit, MemInvStep, PTL DEF Spec

\* The types of Membership's variables; the breaker never opens for the process
\* itself.
THEOREM TypeCorrect == Spec => []MemTypeOK
<1>1. MemInv => MemTypeOK
  BY DEF MemInv
<1> QED
  BY <1>1, MemInvAlways, PTL

\* Ring and map agree about every id that no call is changing, unless two calls
\* about it have overlapped.
THEOREM MembersCorrect == Spec => []MembersAgree
<1>1. MemInv => MembersAgree
  BY DEF MemInv
<1> QED
  BY <1>1, MemInvAlways, PTL

\* A request fails with "unknown peer" only about a peer that was being changed
\* while it ran, or of which two changes once overlapped.
THEOREM UnknownIsEarned == Spec => []UnknownOnlyIfRaced
<1>1. MemInv => UnknownOnlyIfRaced
  BY DEF MemInv
<1> QED
  BY <1>1, MemInvAlways, PTL
============================================================================
