SPECIFICATION Spec
CONSTANTS
    nodeA = nodeA
    nodeB = nodeB
    nodeC = nodeC
    nodeD = nodeD
    Walk <- WalkThree
    Peers <- AllPeers
    ReplicasFlag = 2
    Changes = {}
    Absent = Absent
    Nodes = {nodeA, nodeB, nodeC}
    SetReqs = {}
    GetReqs = {g1, g2}
    DelReqs = {}
    Stamps = {1, 2}
    TTLs = {0}
    Ms = 2
    BreakFor = 2
    Faults = {"rpc"}
    MaxTime = 3
INVARIANTS
    SkippedOnlyBriefly
