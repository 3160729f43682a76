SPECIFICATION FairSpec
CONSTANTS
    Keys = {k1, k2}
    Values = {v1}
    TTLs = {0, 1, 2}
    Stamps = {1}
    Capacity = 2
    SweepPeriod = 2
    MaxTime = 4
    MaxCalls = 3
    Absent = Absent
PROPERTIES
    ExpiredIsSwept
    CloseTerminates
