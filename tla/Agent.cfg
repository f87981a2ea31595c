SPECIFICATION FairSpec
CONSTANTS
    Names = {"n1", "n2"}
    VNIs = {1, 2}
    Prefixes = {"x", "y"}
    Hops = {"h1", "h2"}
    PeeringIds = {"p1"}
    Rules = {"deny"}
    DesiredStates <- MCDesiredStates
    MaxDisturbances = 4
    Stimuli = {"set", "add", "drift", "netlink_error", "restart"}
    NoName = NoName
INVARIANTS TypeOK KernelConsistent
PROPERTIES Converges MatchedHostUntouched
