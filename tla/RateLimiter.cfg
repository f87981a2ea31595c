SPECIFICATION Spec
CONSTANTS
    a1 = a1  a2 = a2  a3 = a3
    r1 = r1  r2 = r2
    b1 = b1  b2 = b2  b3 = b3  b4 = b4
    Accounts <- MCAccounts
    Requests <- MCRequests
    Buckets <- MCBuckets
    Burst <- MCBurst
    PerTick <- MCPerTick
    MaxEntries = 2
    IdleTicks = 2
    MaxDelay = 1
    NoEntry = NoEntry
    NoRequest = NoRequest
SYMMETRY Symmetry
INVARIANTS TypeOK MapBounded
PROPERTIES ImplementsAccountLimits
