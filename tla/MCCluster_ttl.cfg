SPECIFICATION Spec
CONSTANTS
    nodeA = nodeA
    nodeB = nodeB
    nodeC = nodeC
    nodeD = nodeD
    Walk <- WalkThree
    Peers <- AllPeers
    ReplicasFlag = 2
    Changes = {}
    Absent = Absent
    Nodes = {nodeA, nodeB, nodeC}
    SetReqs = {s1}
    GetReqs = {g1}
    DelReqs = {}
    Stamps = {1}
    TTLs = {0, 1}
    Ms = 2
    BreakFor = 2
    Faults = {"evict"}
    MaxTime = 3
INVARIANTS
    TTLSurvives
