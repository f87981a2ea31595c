SPECIFICATION Spec
CONSTANTS
    Width = 3
    MinBits = 2
    MaxBits = 3
    MaxBlocks = 2
    PrivateRanges = {}
    Peerings = {p1}
    Requests = {r1, r2}
    RequesterBlocks <- MCRequesterBlocks
    AccepterBlocks <- MCAccepterBlocks
    Directions = {"bidirectional"}
    Policies <- MCPolicies
    ZeroPolicy <- MCZeroPolicy
    Bodies <- MCBodies
    OverridePrefixes <- MCOverridePrefixes
    Backend = "memory"
    NoRow = NoRow
    NoJob = NoJob
    NoRequest = NoRequest
SYMMETRY MCSymmetry
INVARIANTS TypeOK OneRoutePerPrefix SettingsKept ActiveHasRoutes EffectiveFollowsPolicy
