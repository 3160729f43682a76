SPECIFICATION Spec
CONSTANTS
    nodeA = nodeA
    nodeB = nodeB
    Absent = Absent
    Nodes = {nodeA, nodeB}
    Addrs <- TwoAddrs
    PrimaryBefore = nodeA
    PrimaryAfter = nodeB
    Reqs = {r1, r2}
    Rates = {1}
    Bursts = {2}
    Costs = {2}
    Ms = 1
    Ulp = 0
    Rate = 1
    Burst = 2
    Cost = 2
    MaxInFlight = 1
    Timeout = 1
    Faults = {"rpc", "hangup"}
    MaxCrashes = 1
    LastArrival = 1
SYMMETRY Symmetry
INVARIANTS
    TypeOK
    SlotsHeld
    AdmittedWithinLimit
    ChargedOncePerAttempt
    FailOpenJustified
