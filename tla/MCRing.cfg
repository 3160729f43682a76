SPECIFICATION RingSpec
CONSTANTS
    Ids = {1, 2, 3}
    vnodesPerNode = 2
    HashSpace = 4
INVARIANTS
    RingTypeOK
    OwnersAreClosest
PROPERTIES
    MinimalDisruption
