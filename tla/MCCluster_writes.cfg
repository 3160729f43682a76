SPECIFICATION Spec
CONSTANTS
    nodeA = nodeA
    nodeB = nodeB
    nodeC = nodeC
    nodeD = nodeD
    Walk <- WalkThree
    Peers <- AllPeers
    ReplicasFlag = 2
    Changes = {}
    Absent = Absent
    Nodes = {nodeA, nodeB, nodeC}
    SetReqs = {s1, s2}
    GetReqs = {g1}
    DelReqs = {}
    Stamps = {1, 2}
    TTLs = {0}
    Ms = 2
    BreakFor = 2
    Faults = {"rpc"}
    MaxTime = 1
SYMMETRY Symmetry
INVARIANTS
    FreshReads
    RepairReaches
PROPERTIES
    StampsNeverGoBack
    RefinesCopies
