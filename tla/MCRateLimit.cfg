SPECIFICATION Spec
CONSTANTS
    Keys = {k1, k2, k3}
    Rates = {0, 2}
    Bursts = {3, 4}
    Costs = {4}
    Capacity = 2
    IdleTTL = 2
    Ms = 1
    Ulp = 1
    MaxTime = 4
    Absent = Absent
SYMMETRY Symmetry
INVARIANTS
    TypeOK
    OrderMatchesMap
    OldestFirst
    NoMintedTokens
    RetryWithinMs
PROPERTIES
    SweepForgetsOnlyFull
