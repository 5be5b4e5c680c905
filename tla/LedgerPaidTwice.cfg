SPECIFICATION Spec
CONSTANTS
    i1 = i1
    i2 = i2
    w1 = w1
    w2 = w2
    g1 = g1
    g2 = g2
    o1 = o1
    c1 = c1
    t1 = t1
    t2 = t2
    DefaultTenant = t1
    Workers = {w1, w2}
    GwPays <- OneGateway
    GwOrder <- OrderOne
    GwAmt <- GwOneUnit
    Invoices <- OneInvoice
    TenantOf <- OneTenant
    InitTotal <- TotalTwo
    Refs <- TwoRefs
    GwInv <- PaysFirst
    Events <- PaidTwice
    Requests <- NoRequests
    Verifiable = {g1}
    Voidable = {}
    MaxPayments = 0
    MaxTotal = 2
    MaxFaults = 0
    NoRef = NoRef
    NoEvent = NoEvent
    NoInvoice = NoInvoice
SYMMETRY Symmetric
INVARIANT NeverDoubleCount
