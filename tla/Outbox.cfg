SPECIFICATION FairRelaySpec
CONSTANTS
    r1 = r1
    r2 = r2
    e1 = e1
    e2 = e2
    Gone = Gone
    NoEv = NoEv
    Replicas = {r1}
    TTL = 1
    RenewEvery = 1
    Skew <- SyncedClocks
    MaxSkew = 0
    MaxDelay = 0
    MaxFaults = 1
    Events = {e1, e2}
    NumHandlers = 2
    MaxAttempts = 2
    MaxFails = 2
INVARIANTS
    RelayTypeOK
    PublishedWasHandled
PROPERTY StoredIsPublished
