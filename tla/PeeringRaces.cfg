SPECIFICATION Spec
CONSTANTS
    v1 = v1
    v2 = v2
    v3 = v3
    a1 = a1
    a2 = a2
    VPCs = {v1, v2, v3}
    Accounts = {a1, a2}
    Owner <- MCOwner
    Overlaps <- MCOverlaps
    Peerings = {p1}
    Requests = {r1, r2}
    DirectionInputs = {"bidirectional"}
    Policies = {"zero"}
    ZeroPolicy = "zero"
    MaxPeerings = 1
    Backend = "memory"
    Stimuli = {"reconcile", "create", "update", "delete", "accept", "reject", "age", "fabric_error"}
    NoRow = NoRow
    NoPeering = NoPeering
SYMMETRY MCRequestSymmetry
INVARIANTS TypeOK Consent ActiveIsProgrammed RouteIsolation
PROPERTIES NeverPendingAgain
