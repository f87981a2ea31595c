SPECIFICATION Spec
CONSTANTS
    v1 = v1
    v2 = v2
    v3 = v3
    a1 = a1
    a2 = a2
    VPCs = {v1, v2, v3}
    Accounts = {a1, a2}
    Owner <- MCOwner
    Overlaps <- MCOverlaps
    Peerings = {p1, p2, p3, p4}
    Requests = {r1, r2}
    DirectionInputs = {"requester_to_accepter"}
    Policies = {"zero"}
    ZeroPolicy = "zero"
    MaxPeerings = 2
    Backend = "memory"
    Stimuli = {"create", "accept", "delete"}
    NoRow = NoRow
    NoPeering = NoPeering
SYMMETRY MCSymmetry
INVARIANTS QuotaOverrunBounded DuplicatesBounded
CHECK_DEADLOCK FALSE
