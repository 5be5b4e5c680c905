SPECIFICATION FairSpec
CONSTANTS
    i1 = i1
    i2 = i2
    w1 = w1
    w2 = w2
    g1 = g1
    g2 = g2
    o1 = o1
    c1 = c1
    t1 = t1
    t2 = t2
    DefaultTenant = t1
    Workers = {w1, w2}
    GwPays <- TwoGateways
    GwOrder <- OrdersTwo
    GwAmt <- GwUnits
    Invoices <- TwoInvoices
    TenantOf <- TwoTenants
    InitTotal <- TotalsOne
    Refs <- FourRefs
    GwInv <- PaysSecond
    Events <- SettleEvents
    Requests <- ChequeOnly
    Verifiable = {g1}
    Voidable = {}
    MaxPayments = 0
    MaxTotal = 1
    MaxFaults = 1
    NoRef = NoRef
    NoEvent = NoEvent
    NoInvoice = NoInvoice
INVARIANTS
    TypeOK
    KeysUnique
    ReversalExact
    AckedIsRecorded
PROPERTIES
    CapturedIsCredited
    RefundIsReversed
