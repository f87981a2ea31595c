SPECIFICATION Spec
CONSTANTS
    a1 = a1
    b1 = b1
    b2 = b2
    VPCIds = {d1, d2, d3}
    Accounts = {a1}
    Shard <- MCOneShard
    Regions = {1}
    Names = {n1, n2, n3}
    Blocks = {b1, b2}
    Overlaps <- MCOverlaps
    RegionCount = 2
    ShardCount = 2
    SeqCount = 2
    MinVNI = 1
    MaxVNI = 7
    Requests = {r1, r2}
    Backend = "postgres"
    NoVPC = NoVPC
    NoId = NoId
SYMMETRY MCSymmetry
INVARIANTS TypeOK LiveVNIAllocated VNIWellPlaced RefusedOnce
PROPERTIES ImplementsVNIPool
CHECK_DEADLOCK FALSE
