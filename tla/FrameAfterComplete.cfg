SPECIFICATION Spec
CONSTANTS
    s1 = s1
    s2 = s2
    p1 = p1
    p2 = p2
    p3 = p3
    st1 = st1
    st2 = st2
    g1 = g1
    g2 = g2
    g3 = g3
    a1 = a1
    a2 = a2
    a3 = a3
    NoRow = NoRow
    NoReq = NoReq
    NoProduct = NoProduct
    Stored = Stored
    Trigger <- MCTrigger
    MaxDwell <- MCMaxDwell
    Req <- GlassesReq
    CallsOf <- GlassesCalls
    Before <- GlassesBefore
    WorkerOf <- OneWorker
    Session = {s1, s2}
    Product = {p1, p2}
    Candidates = {p1, p2}
    Store = {st1, st2}
    ActiveStores = {st1}
    InitStatus <- OneActive
    InitRows <- P1Purchased
    InitWishlist <- EmptyWishlist
PROPERTY
    FramesOnlyInActiveSessions
