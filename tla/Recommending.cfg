SPECIFICATION Spec
CONSTANTS
    r1 = r1
    r2 = r2
    r3 = r3
    r4 = r4
    r5 = r5
    t1 = t1
    t2 = t2
    icn = icn
    city = city
    shore = shore
    Null = Null
    None = None
    Store = {1, 2, 3, 4}
    Product = {1, 2, 3, 4}
    InitCarries <- Shelves
    TripStore = {2, 3, 4}
    TripProduct = {1, 2, 4}
    Airport <- Airports
    Terminal <- Terminals
    Place = {city, shore}
    Distance <- Distances
    Near = 2
    Far = 100
    CandidateLimit = 2
    TripProductLimit = 2
    TripStoreLimit = 2
    Decisions <- Answers
    InitOpen = {1, 2, 3, 4}
    InitWishes = {2}
    InitBought = {}
    InitHotel = city
    Req = {r1, r2, r3, r4, r5}
    Before <- Follows
    CallsOf <- Calls
INVARIANTS
    NothingBoughtBefore
    OnlyWhatStoresSell
    WishesComeFirst
    NearerStoresComeFirst
