SPECIFICATION Spec
CONSTANTS
    b1 = b1
    b2 = b2
    t1 = t1
    t2 = t2
    t3 = t3
    d1 = d1
    d2 = d2
    v1 = v1
    w1 = w1
    w2 = w2
    o1 = o1
    o2 = o2
    None = None
    Bookings = {b1}
    Trips = {t1}
    Drivers = {d1, d2}
    Vehicles = {v1}
    PortalBookings = {b1}
    AppDrivers = {d1}
    Requests = {w1, w2}
    Offers = {o1, o2}
    OfferOf <- ForFirst
    Short = {t1}
    Late = {}
    PlanQuota = 1
    Serial = TRUE
SYMMETRY Symmetric
CHECK_DEADLOCK FALSE
INVARIANT OneAcceptedOffer
