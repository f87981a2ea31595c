SPECIFICATION FairSpec
CONSTANTS
    v1 = v1  v2 = v2  v3 = v3
    p1 = p1  p2 = p2
    VPCs <- MCVPCs
    Peerings <- MCPeerings
    Requester <- MCRequester
    Accepter <- MCAccepter
    Exporting <- MCExporting
    Backend = "memory"
    MaxErrors = 1
    MaxMarks = 2
    NoJob = NoJob
INVARIANTS TypeOK ActiveReachable
PROPERTIES TearDownCompletes FailedRecovers
