SPECIFICATION FairSpec
CONSTANTS
    r1 = r1
    r2 = r2
    Gone = Gone
    Replicas = {r1, r2}
    TTL = 3
    RenewEvery = 1
    Skew <- SkewedClocks
    MaxSkew = 1
    MaxDelay = 1
    MaxFaults = 2
INVARIANTS
    LeaseTypeOK
    FreshHolderKeepsLease
PROPERTY WaiterTakesOver
