SPECIFICATION Spec
CONSTANTS
    t1 = t1
    t2 = t2
    s1 = s1
    s2 = s2
    p1 = p1
    p2 = p2
    n1 = n1
    n2 = n2
    r1 = r1
    r2 = r2
    r3 = r3
    r4 = r4
    r5 = r5
    Null = Null
    None = None
    Unlisted = Unlisted
    Trip = {t1, t2}
    Store = {s1, s2}
    Product = {p1, p2}
    Name = {n1, n2}
    Time <- MCTime
    InitCarries <- MCCarries
    InitTrips <- Planned
    InitOpen = {s1}
    InitWishlist = {p1, p2}
    Req = {r1, r2, r3, r4, r5}
    Before <- Follows
    CallsOf <- Calls
    InitHotels <- NoHotels
INVARIANTS
    TypeOK
    TripTimesInOrder
    EditsStand
    StaleChoiceRefused
PROPERTY
    ReservationsStand
