SPECIFICATION Spec
CONSTANTS
    Ids = {1, 2, 3}
    vnodesPerNode = 1
    HashSpace = 2
    Self = 1
    Peers = {1, 2}
    ReplicasFlag = 2
    Calls = {c1, c2, c3}
SYMMETRY Symmetry
INVARIANTS
    MemTypeOK
    MembersAgree
    UnknownOnlyIfRaced
