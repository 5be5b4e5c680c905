SPECIFICATION FairSpec
CONSTANTS
    t1 = t1
    t2 = t2
    k1 = k1
    k2 = k2
    w1 = w1
    w2 = w2
    None = None
    Trips = {t1, t2}
    Fare <- TwoFares
    Keys = {k1, k2}
    Amount <- TwoUnits
    MinPayout = 1
    Events <- Outcomes
    Workers = {w1, w2}
    MaxFaults = 1
INVARIANTS
    WalletTypeOK
    BookedOnce
    HeaderComplete
    PayoutBooked
    NeverOverdrawn
    AckedIsApplied
    BalanceMatchesEntries
PROPERTY ReversalIsCredited
