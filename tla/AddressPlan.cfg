SPECIFICATION Spec
CONSTANTS
    Width = 4
    MinBits = 3
    MaxBits = 4
    MaxBlocks = 3
    PrivateRanges <- MCPrivateRanges
    VPCIds = {x1, x2, x3}
    Accounts = {a1, a2}
    Requests = {r1, r2}
    Inputs <- MCInputs
    PageSize = 1
    Backend = "postgres"
    NoRow = NoRow
    NoId = NoId
    NoRequest = NoRequest
SYMMETRY MCSymmetry
INVARIANTS TypeOK BlocksWellFormed PlanDisjoint PeeredDisjoint
CHECK_DEADLOCK FALSE
