----------------------------- MODULE MCCluster -----------------------------
(* Small instances of Cluster for TLC. *)
EXTENDS Cluster, TLC

CONSTANTS nodeA, nodeB, nodeC, nodeD

\* A fixed cluster: nodeA and nodeB own the key, nodeA first; nodeC, where there
\* is one, coordinates for a key that it does not own.
WalkTwo == <<nodeA, nodeB>>
WalkThree == <<nodeA, nodeB, nodeC>>
AllPeers == [n \in Nodes |-> Nodes]

\* nodeD is started with the whole membership in its configuration and the
\* others are told of it one by one, as scripts/rebalance-demo.sh does; it
\* becomes the key's primary.
WalkJoin == <<nodeD, nodeA, nodeB>>
JoinPeers == [n \in Nodes |-> IF n = nodeD THEN Nodes ELSE Nodes \ {nodeD}]
JoinLeave == [op: {"join", "leave"}, id: {nodeD}]

\* SETs differ only in what they are given.
Symmetry == Permutations(SetReqs)
============================================================================
