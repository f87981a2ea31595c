SPECIFICATION Spec
CONSTANTS
    v1 = v1
    v2 = v2
    v3 = v3
    a1 = a1
    a2 = a2
    VPCs = {v1, v2}
    Accounts = {a1, a2}
    Owner <- MCTwoOwner
    Overlaps <- MCNoOverlaps
    Peerings = {p1}
    Requests = {r1, r2}
    DirectionInputs = {"requester_to_accepter", "sideways"}
    Policies = {"custom"}
    ZeroPolicy = "zero"
    MaxPeerings = 1
    Backend = "postgres"
    Stimuli = {"reconcile", "create", "update", "delete", "accept", "reject", "age"}
    NoRow = NoRow
    NoPeering = NoPeering
SYMMETRY MCRequestSymmetry
INVARIANTS PolicyGiven
PROPERTIES QuietDeletionIsFinal
