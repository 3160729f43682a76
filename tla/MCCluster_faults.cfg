SPECIFICATION Spec
CONSTANTS
    nodeA = nodeA
    nodeB = nodeB
    nodeC = nodeC
    nodeD = nodeD
    Walk <- WalkTwo
    Peers <- AllPeers
    ReplicasFlag = 2
    Changes = {}
    Absent = Absent
    Nodes = {nodeA, nodeB}
    SetReqs = {s1}
    GetReqs = {g1}
    DelReqs = {d1}
    Stamps = {1}
    TTLs = {0, 1}
    Ms = 1
    BreakFor = 2
    Faults = {"crash", "rpc"}
    MaxTime = 2
INVARIANTS
    Provenance
    TypeOK
    SkippedOnlyAfterError
