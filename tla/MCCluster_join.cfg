SPECIFICATION FairSpec
CONSTANTS
    nodeA = nodeA
    nodeB = nodeB
    nodeC = nodeC
    nodeD = nodeD
    Walk <- WalkJoin
    Peers <- JoinPeers
    ReplicasFlag = 2
    Changes <- JoinLeave
    Absent = Absent
    Nodes = {nodeA, nodeB, nodeD}
    SetReqs = {s1}
    GetReqs = {g1}
    DelReqs = {}
    Stamps = {1}
    TTLs = {0}
    Ms = 2
    BreakFor = 2
    Faults = {"evict", "rpc"}
    MaxTime = 1
INVARIANTS
    FreshReads
    JoinHidesNothing
PROPERTIES
    RequestCompletes
