SPECIFICATION Spec
CONSTANTS
    nodeA = nodeA
    nodeB = nodeB
    Absent = Absent
    Nodes = {nodeA, nodeB}
    Addrs <- TwoAddrs
    PrimaryBefore = nodeA
    PrimaryAfter = nodeB
    Reqs = {r1}
    Rates = {1}
    Bursts = {2}
    Costs = {2}
    Ms = 1
    Ulp = 0
    Rate = 1
    Burst = 2
    Cost = 2
    MaxInFlight = 1
    Timeout = 1
    Faults = {}
    MaxCrashes = 0
    LastArrival = 1
INVARIANTS
    TakeWithinTimeout
