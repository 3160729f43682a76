SPECIFICATION Spec
CONSTANTS
    Keys = {k1, k2, k3}
    Values = {v1}
    TTLs = {0, 1}
    Stamps = {1, 2}
    Capacity = 2
    SweepPeriod = 2
    MaxTime = 3
    MaxCalls = 5
    Absent = Absent
SYMMETRY Symmetry
INVARIANTS
    TypeOK
    ListMatchesMap
    WithinCapacity
    RecencyOrder
    NewestWins
    StatsBalance
    SweepComplete
PROPERTIES
    EvictsLRU
    ExpiresOnlyExpired
