SPECIFICATION FairSpec
CONSTANTS
    v1 = v1
    v2 = v2
    v3 = v3
    a1 = a1
    a2 = a2
    VPCs = {v1, v2, v3}
    Accounts = {a1, a2}
    Owner <- MCOwner
    Overlaps <- MCOverlaps
    Peerings = {p1, p2}
    Requests = {r1}
    DirectionInputs = {"bidirectional"}
    Policies = {"zero"}
    ZeroPolicy = "zero"
    MaxPeerings = 2
    Backend = "postgres"
    Stimuli = {"reconcile", "create", "update", "delete_vpc", "age", "store_error"}
    NoRow = NoRow
    NoPeering = NoPeering
PROPERTIES ProvisioningEnds OldPendingEnds
