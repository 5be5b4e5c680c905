SPECIFICATION Spec
CONSTANTS
    b1 = b1
    b2 = b2
    t1 = t1
    t2 = t2
    t3 = t3
    d1 = d1
    d2 = d2
    v1 = v1
    w1 = w1
    w2 = w2
    o1 = o1
    o2 = o2
    None = None
    Bookings = {b1, b2}
    Trips = {t1, t2, t3}
    Drivers = {d1}
    Vehicles = {}
    PortalBookings = {}
    AppDrivers = {}
    Requests = {w1}
    Offers = {}
    OfferOf <- ForFirst
    Short = {t1, t2, t3}
    Late = {}
    PlanQuota = 1
    Serial = TRUE
SYMMETRY SymmetricTrips
CHECK_DEADLOCK FALSE
INVARIANT NotOverServed
